---- MODULE Spec2Model ----
(***************************************************************************)
(* The JSON-RPC variant of the term-relay python SDK: the single-session   *)
(* facade (sdk.py, SingleSessionRPCServer), the terminal bridge runtime    *)
(* (bridge.py), the iTerm2 socket transport (iterm2.py) and the tmux       *)
(* control session (tmux.py), as one state machine.                        *)
(*                                                                         *)
(* Threads: the request thread(s) running the handlers, one reader thread  *)
(* per bridge transport, one reader and one wait thread per tmux session.  *)
(* Every action is one step of one thread between two points where it     *)
(* touches shared state (a lock section, an Event, the socket, stdout);    *)
(* thread-local computation is folded into the next shared step.           *)
(*                                                                         *)
(* A runtime's handle (secrets.token_hex(16)) is modelled by the runtime's *)
(* index: handles of different runtimes differ.  Handle 0 is the missing   *)
(* or empty session_handle of a request.                                   *)
(*                                                                         *)
(* Beside the facade (Spec, SpecRace) some parts are run on their own, at  *)
(* a finer grain: _JSONLineIO.send (SpecIO), JsonRPCServer.run (SpecRPC),  *)
(* one runtime (SpecTerm), the handlers' parameters (SpecPar), the Simple  *)
(* I/O server over the PTY adapter (SpecSio), the transport's handshake    *)
(* (SpecConn), the tmux extension's ext.start (SpecTmx), the threads of    *)
(* one tmux control session (SpecTcs), decode_octal (SpecOct),             *)
(* parse_terminal_bridge_start (SpecPbs) and the locks of the JSON-RPC     *)
(* variant (SpecLk, SpecLkFair).                                           *)
(***************************************************************************)
EXTENDS Integers, FiniteSets, Sequences, TLC

\* number of runtimes that start_session constructs with running threads
MaxSessions == 2

\* number of frames each thread sends through _JSONLineIO; number of chunks
\* the child of the PTY adapter writes; number of lines the tmux -C child
\* writes
MaxSends == 2

\* largest rows / cols value a request or an attached frame carries
MaxDim == 2

\* longest byte string given to write_input; most words in a tmux command;
\* the strings given to decode_octal are up to one byte longer, the texts
\* given to parse_terminal_bridge_start up to one shorter
MaxLen == 3

Sessions == 1..MaxSessions

\* self._session = None; also the "" of params.get("session_handle") or ""
NoSession == 0

\* the session_handle values a request can carry
Handles == 0..MaxSessions

\* the request threads: "main" is JsonRPCServer.run; "aux" is a second
\* thread dispatching handlers at the same time (only in SpecRace)
Callers == {"main", "aux"}

OK == 0
ERR_SESSION_RUNNING == 4001
ERR_SESSION_NOT_FOUND == 4004
ERR_INVALID_PARAMS == -32602
ERR_INTERNAL == -32603

VARIABLES
    backend,        \* which start_session the process was built with
    session,        \* SingleSessionRPCServer._session (a runtime index or NoSession)
    nextId,         \* runtimes constructed so far
    stopped,        \* TerminalBridgeRuntime._stopped / TmuxControlSession._stopped
    exit_sent,      \* TerminalBridgeRuntime._exit_sent
    closed,         \* Iterm2SocketTransport._closed (socket shut down, _reader None)
    exit_emitted,   \* Iterm2SocketTransport._exit_emitted
    attached_event, \* Iterm2SocketTransport._attached_event
    attach_error,   \* Iterm2SocketTransport._attach_error is set
    reader,         \* position of the runtime's reader thread
    waiter,         \* position of the tmux session's wait thread
    child,          \* the tmux -C child process
    req,            \* per request thread: the request in progress
    exits,          \* stdout: event.exit frames written per handle
    late_output,    \* stdout: an event.output was written after stop() returned
    failed,         \* the ext.start that constructed the runtime failed in attach
    returned,       \* the handle was returned in an ext.start result
    kept,           \* an exit for another handle than the slot's, in the last step
    io,             \* _JSONLineIO: the write lock, stdout, the senders
    rpc,            \* JsonRPCServer.run on one line of stdin
    term,           \* one runtime driven through its own methods
    par,            \* the facade's handlers on the parameters of one request
    sio,            \* SimpleIOServer.run over a PTYSimpleIOAdapter
    conn,           \* Iterm2SocketTransport.connect inside TerminalBridgeRuntime.__init__
    tmx,            \* start_tmux_control_session called by _start
    tcs,            \* one TmuxControlSession with its threads and its child
    oct,            \* decode_octal on one byte string
    pbs,            \* parse_terminal_bridge_start on the params of one request
    lk              \* the locks of the RPC variant and the threads that take them

vars == <<backend, session, nextId, stopped, exit_sent, closed, exit_emitted,
          attached_event, attach_error, reader, waiter, child, req, exits,
          late_output, failed, returned, kept, io, rpc, term, par, sio, conn, tmx,
          tcs, oct, pbs, lk>>

\* the components that are modelled on their own
others == <<io, rpc, term, par, sio, conn, tmx, tcs, oct, pbs, lk>>

rtvars == <<stopped, exit_sent, closed, exit_emitted, attached_event,
            attach_error, reader, waiter, child>>

obsvars == <<exits, late_output, failed, returned>>

\* A request thread between two lines of stdin.  Of a request in progress:
\* m the method, h its session_handle, rt the runtime the handler holds, code
\* the error code of the response (OK for a result), fwd: the backend was
\* sent the input or resize, active: the "active" of an ext.health result.
\* For the properties: pre the slot when the handler began, second: another
\* _start was in progress then, stale: an event.exit for h was on stdout
\* then, clean_fail: the thread's previous request was an ext.start that
\* failed and had found no session installed (kept while idle and by a
\* following ext.start or ext.health), early: an event.output or event.exit
\* carrying the handle of rt was written while this ext.start was in progress,
\* bad: the rows or cols of this ext.resize are zero, negative or missing.
Idle == [pc |-> "idle", m |-> "none", h |-> NoSession, rt |-> NoSession,
         code |-> OK, pre |-> NoSession, second |-> FALSE, stale |-> FALSE,
         fwd |-> FALSE, active |-> FALSE, clean_fail |-> FALSE,
         early |-> FALSE, bad |-> FALSE]

\* the threads that call _JSONLineIO.send: the request loop (responses), a
\* reader thread and a wait thread (notifications)
Writers == {"run", "reader", "wait"}

\* _JSONLineIO before any send: the lock is free and stdout is empty.  out is
\* the content of the stdout buffer in write order, flushed the length of the
\* part of it that flush() has pushed out.
IOInit == [lock |-> "free",
           pc |-> [w \in Writers |-> "idle"],
           sent |-> [w \in Writers |-> 0],
           out |-> <<>>,
           flushed |-> 0]

\* a line of stdin nothing is known about
NoLine == [kind |-> "none", method |-> "none", id |-> "none",
           params |-> "none", outcome |-> "none"]

\* JsonRPCServer.run before it reads a line.  line is the line in hand, out
\* the frames written for it, invoked: its handler was called.
RPCInit == [pc |-> "idle", line |-> NoLine, out |-> <<>>, invoked |-> FALSE]

\* A runtime before start_session has built it.  Of the runtime: rows, cols,
\* stopped (_stopped), closed (the transport's _closed), child (the tmux -C
\* process).  Of what was done to it: stops, the calls of stop(); closes, the
\* calls of transport.close(); detaches, the detach frames sent; op the last
\* call, data its byte string, wire what that call sent to the backend, live:
\* the runtime was not stopped and its backend was there during the call.
TermInit == [pc |-> "new", rows |-> 0, cols |-> 0, stopped |-> FALSE,
             closed |-> FALSE, child |-> "none", stops |-> 0, closes |-> 0,
             detaches |-> 0, op |-> "none", data |-> <<>>, wire |-> <<>>,
             live |-> FALSE]

\* No request in progress, no session installed.  handle, rows, cols and
\* stopped are those of the runtime last built; installed: it is in the slot.
\* Of the request: m, code the error code of its response, perr: one of its
\* parameters is missing, of the wrong type, not positive where it has to be,
\* or no base64, fwd: the runtime was called, before: the session when the
\* handler began.
ParInit == [pc |-> "idle", handle |-> NoSession, installed |-> FALSE,
            rows |-> 0, cols |-> 0, stopped |-> FALSE,
            m |-> "none", code |-> OK, perr |-> FALSE, fwd |-> FALSE,
            before |-> <<NoSession, FALSE, 0, 0, FALSE>>]

\* SimpleIOServer.run before its first line, the adapter before on_start.
\* Of run: pc ("loop", "ready" between on_start and the ready frame,
\* "returned", "raised", "exited"), started, ret the status it returned, last the line handled last and was_started the value of
\* started when it was taken up.  Of the adapter: starts the calls of
\* on_start, spawns those of Popen, stops those of on_stop, procref and fd:
\* self._proc and self._master_fd are set, the two events, the position of
\* the read thread and of the wait thread, reason what the wait thread is to
\* report.  Of the child: proc, its exit code, the chunks it has written
\* (produced) and those not read yet (pending).  out: the frames on stdout.
SioInit == [pc |-> "loop", ret |-> 0, started |-> FALSE, last |-> "none",
            was_started |-> FALSE, starts |-> 0, spawns |-> 0, stops |-> 0,
            procref |-> FALSE, fd |-> FALSE, stop_event |-> FALSE,
            exit_once |-> FALSE, reader |-> "none", waiter |-> "none",
            reason |-> [text |-> "none", n |-> 0],
            proc |-> "none", code |-> 0, produced |-> 0, pending |-> 0,
            out |-> <<>>]

\* a transport before connect.  pc: "initial", "waiting" (connect is in the
\* wait), "returned", "raised"; start_rows, start_cols of the
\* TerminalBridgeStart; event, error, rows, cols: _attached_event,
\* _attach_error, _attached_rows, _attached_cols; msg the message of the
\* RuntimeError raised; ready the pair connect returned (<<0, 0>> for None);
\* rt_rows, rt_cols the runtime's dimensions after __init__.  first, firstmsg: which of attached, error, exit and EOF the
\* read thread met first while connect was waiting, and its message.
ConnInit == [pc |-> "initial", start_rows |-> 0, start_cols |-> 0,
             event |-> FALSE, error |-> "none", rows |-> 0, cols |-> 0,
             closed |-> FALSE, exit_emitted |-> FALSE, reader |-> "none",
             msg |-> "none", ready |-> <<0, 0>>, rt_rows |-> 0, rt_cols |-> 0,
             first |-> "none", firstmsg |-> "none"]

\* the tmux extension before an ext.start.  Of the request: command and
\* pane as given, code and msg of the response; queried: pane_option_value
\* was called, spawned: the tmux -C client was started, installed: the
\* session is in the slot, notes: the notifications written.
TmxInit == [pc |-> "idle", command |-> <<>>, pane |-> "unset", code |-> OK,
            msg |-> "none", queried |-> FALSE, spawned |-> FALSE,
            installed |-> FALSE, notes |-> 0]

\* a TmuxControlSession before start()
TcsInit == [pc |-> "new"]

\* decode_octal before it is given a byte string
OctInit == [pc |-> "idle"]

\* parse_terminal_bridge_start before it is given params
PbsInit == [pc |-> "idle"]

\* The locks before the first request: none is held, no thread is inside a
\* method.  holder: the thread that holds the lock; todo: the lock operations
\* the thread has still to perform in the method it is in.
LkInit == [holder |-> [l \in {"session", "runtime", "state", "write", "tmuxw", "io"} |-> "none"],
           todo |-> [t \in {"run", "reader", "wait"} |-> <<>>]]

\* a part of the program that the specification in hand does not run
Absent == [pc |-> "absent"]

\* the last step was no lock section of _emit_exit for another handle than
\* the one in the slot
NoKept == <<NoSession, NoSession, NoSession>>

\* the facade and its runtimes after construction, before the first line of
\* stdin
FacadeInit ==
    /\ backend \in {"bridge", "tmux"}
    /\ session = NoSession
    /\ nextId = 0
    /\ stopped = [s \in Sessions |-> FALSE]
    /\ exit_sent = [s \in Sessions |-> FALSE]
    /\ closed = [s \in Sessions |-> FALSE]
    /\ exit_emitted = [s \in Sessions |-> FALSE]
    /\ attached_event = [s \in Sessions |-> FALSE]
    /\ attach_error = [s \in Sessions |-> FALSE]
    /\ reader = [s \in Sessions |-> "none"]
    /\ waiter = [s \in Sessions |-> "none"]
    /\ child = [s \in Sessions |-> "none"]
    /\ req = [c \in Callers |-> Idle]
    /\ exits = [s \in Sessions |-> 0]
    /\ late_output = [s \in Sessions |-> FALSE]
    /\ failed = [s \in Sessions |-> FALSE]
    /\ returned = [s \in Sessions |-> FALSE]
    /\ kept = NoKept

\* the parts that are modelled on their own: part p as constructed, the
\* others absent
Parts(p) ==
    /\ io = IF p = "io" THEN IOInit ELSE Absent
    /\ rpc = IF p = "rpc" THEN RPCInit ELSE Absent
    /\ term = IF p = "term" THEN TermInit ELSE Absent
    /\ par = IF p = "par" THEN ParInit ELSE Absent
    /\ sio = IF p = "sio" THEN SioInit ELSE Absent
    /\ conn = IF p = "conn" THEN ConnInit ELSE Absent
    /\ tmx = IF p = "tmx" THEN TmxInit ELSE Absent
    /\ tcs = IF p = "tcs" THEN TcsInit ELSE Absent
    /\ oct = IF p = "oct" THEN OctInit ELSE Absent
    /\ pbs = IF p = "pbs" THEN PbsInit ELSE Absent
    /\ lk = IF p = "lk" THEN LkInit ELSE Absent

\* the facade process, none of the parts run on their own
Init == FacadeInit /\ Parts("none")

\* JsonRPCServer.run has left its loop (stdin EOF): no further request is read
Closing == req["main"].pc \in {"cleanup", "returned"}

CanRead(c) == req[c].pc = "idle" /\ ~Closing

\* JsonRPCServer.run calls the handler of method m
Begin(c, m) ==
    [Idle EXCEPT !.m = m, !.pre = session,
                 !.clean_fail = req[c].clean_fail /\ m \in {"start", "health"}]

\* the handler raised or returned: JsonRPCServer.run will write the response
Answer(c, r, code) == [r EXCEPT !.pc = "respond", !.code = code]

\* a counter of stdout frames, kept up to 2
Cap2(n) == IF n >= 2 THEN 2 ELSE n + 1

\* a notification carrying the handle of runtime s is written to stdout: the
\* ext.start that built s, if its response is not written yet, has it before
\* its response
Early(s) ==
    [c \in Callers |->
        IF req[c].m = "start" /\ req[c].rt = s
        THEN [req[c] EXCEPT !.early = TRUE] ELSE req[c]]

----------------------------------------------------------------------------
\* TerminalBridgeRuntime.stop / TmuxControlSession.stop

\* stop() that returns without setting the flag
StopFlagUnset(s) == stopped

\* the _stopped flag after stop()
StopFlag(s) == [stopped EXCEPT ![s] = TRUE]

\* Iterm2SocketTransport.close, called by the first stop() of a bridge runtime
CloseAfterStop(s) ==
    IF backend = "bridge" /\ ~stopped[s] THEN [closed EXCEPT ![s] = TRUE] ELSE closed

----------------------------------------------------------------------------
\* a lock section that would empty the slot whichever session it holds
ClearSlotAny(s) == NoSession

\* SingleSessionRPCServer._emit_exit, the lock section: clear the slot on a match
ClearSlot(s) == IF session # NoSession /\ session = s THEN NoSession ELSE session

\* The lock section of _emit_exit for the handle of s, run while the slot
\* holds another session: the handle, the slot before it and the slot after it
Kept(s) ==
    IF session \in {NoSession, s} THEN NoKept
    ELSE <<s, session, ClearSlot(s)>>

----------------------------------------------------------------------------
\* SingleSessionRPCServer._start

\* _start without its checks of the slot
SlotAlwaysFree == TRUE

\* the check both lock sections of _start make: self._session is None
SlotFree == session = NoSession

\* another request thread is inside _start, past its first check
OtherStarting(c) ==
    \E d \in Callers \ {c} :
        req[d].m = "start" /\ req[d].pc \in {"wait", "capture", "install"}

\* The first lock section and start_session up to the point where it blocks.
\* (The write of the attach frame on the fresh socket is taken to succeed.)
\* outcome: "badparams"  the parameters are refused (RPCError -32602)
\*          "nothread"   the socket connect / the tmux display-message fails
\*                       before any thread is started (-32603)
\*          "ok"         bridge: attach sent, connect waits for the event;
\*                       tmux: child spawned, reader and wait threads started
Start(c, outcome) ==
    /\ CanRead(c)
    /\ LET r0 == [Begin(c, "start") EXCEPT !.second = OtherStarting(c)]
           s == nextId + 1
       IN
       IF ~SlotFree \/ outcome \in {"badparams", "nothread"}
       THEN /\ req' = [req EXCEPT ![c] =
                   Answer(c, r0, IF ~SlotFree THEN ERR_SESSION_RUNNING
                                 ELSE IF outcome = "badparams" THEN ERR_INVALID_PARAMS
                                 ELSE ERR_INTERNAL)]
            /\ UNCHANGED <<nextId, reader, waiter, child>>
       ELSE /\ nextId < MaxSessions
            /\ nextId' = s
            /\ IF backend = "bridge"
               THEN /\ reader' = [reader EXCEPT ![s] = "loop"]
                    /\ UNCHANGED <<waiter, child>>
               ELSE /\ reader' = [reader EXCEPT ![s] = "t_top"]
                    /\ waiter' = [waiter EXCEPT ![s] = "wait"]
                    /\ child' = [child EXCEPT ![s] = "running"]
            /\ req' = [req EXCEPT ![c] =
                   [r0 EXCEPT !.rt = s,
                       !.pc = IF backend = "bridge" THEN "wait" ELSE "capture"]]
    /\ UNCHANGED <<backend, others, session, stopped, exit_sent, closed, exit_emitted,
                   attached_event, attach_error, obsvars>>
    /\ kept' = NoKept

\* Iterm2SocketTransport.connect after the wait: the event is set
ConnectWake(c) ==
    /\ req[c].pc = "wait"
    /\ LET s == req[c].rt IN
       /\ attached_event[s]
       /\ IF attach_error[s]
          THEN /\ closed' = [closed EXCEPT ![s] = TRUE]
               /\ failed' = [failed EXCEPT ![s] = TRUE]
               /\ req' = [req EXCEPT ![c] = Answer(c, req[c], ERR_INTERNAL)]
          ELSE /\ req' = [req EXCEPT ![c].pc = "install"]
               /\ UNCHANGED <<closed, failed>>
    /\ UNCHANGED <<backend, others, session, nextId, stopped, exit_sent, exit_emitted,
                   attached_event, attach_error, reader, waiter, child, exits,
                   late_output, returned>>
    /\ kept' = NoKept

\* a connect whose runtime was put in the slot before the handshake and is
\* left there when the wait times out
ConnectTimeoutKeepsRuntime(c) ==
    /\ req[c].pc = "wait"
    /\ LET s == req[c].rt IN
       /\ ~attached_event[s]
       /\ closed' = [closed EXCEPT ![s] = TRUE]
       /\ failed' = [failed EXCEPT ![s] = TRUE]
       /\ session' = s
       /\ req' = [req EXCEPT ![c] = Answer(c, req[c], ERR_INTERNAL)]
    /\ UNCHANGED <<backend, others, nextId, stopped, exit_sent, exit_emitted,
                   attached_event, attach_error, reader, waiter, child, exits,
                   late_output, returned>>
    /\ kept' = NoKept

\* Iterm2SocketTransport.connect: the wait times out, close() and raise
ConnectTimeout(c) ==
    /\ req[c].pc = "wait"
    /\ LET s == req[c].rt IN
       /\ ~attached_event[s]
       /\ closed' = [closed EXCEPT ![s] = TRUE]
       /\ failed' = [failed EXCEPT ![s] = TRUE]
       /\ req' = [req EXCEPT ![c] = Answer(c, req[c], ERR_INTERNAL)]
    /\ UNCHANGED <<backend, others, session, nextId, stopped, exit_sent, exit_emitted,
                   attached_event, attach_error, reader, waiter, child, exits,
                   late_output, returned>>
    /\ kept' = NoKept

\* TmuxControlSession.capture_and_emit, on the request thread inside start():
\* the history snapshot is written as an event.output unless it is empty or
\* capture-pane failed
Capture(c, emit) ==
    /\ req[c].pc = "capture"
    /\ req' = [req EXCEPT ![c].pc = "install", ![c].early = emit]
    /\ late_output' = IF emit
                      THEN [late_output EXCEPT ![req[c].rt] = @ \/ stopped[req[c].rt]]
                      ELSE late_output
    /\ UNCHANGED <<backend, others, session, nextId, rtvars, exits, failed,
                   returned>>
    /\ kept' = NoKept

\* the second lock section of _start
StartInstall(c) ==
    /\ req[c].pc = "install"
    /\ LET s == req[c].rt IN
       IF ~SlotFree
       THEN /\ stopped' = StopFlag(s)
            /\ closed' = CloseAfterStop(s)
            /\ req' = [req EXCEPT ![c] = Answer(c, req[c], ERR_SESSION_RUNNING)]
            /\ UNCHANGED session
       ELSE /\ session' = s
            /\ req' = [req EXCEPT ![c] = Answer(c, req[c], OK)]
            /\ UNCHANGED <<stopped, closed>>
    /\ UNCHANGED <<backend, others, nextId, exit_sent, exit_emitted, attached_event,
                   attach_error, reader, waiter, child, obsvars>>
    /\ kept' = NoKept

\* JsonRPCServer.run writes the response frame and goes on to the next line;
\* track: clean_fail is recorded for the request that follows
WriteResponse(c, track) ==
    /\ req[c].pc = "respond"
    /\ returned' = IF req[c].m = "start" /\ req[c].code = OK
                   THEN [returned EXCEPT ![req[c].rt] = TRUE]
                   ELSE returned
    /\ req' = [req EXCEPT ![c] =
           [Idle EXCEPT !.clean_fail = /\ track
                                       /\ req[c].m = "start"
                                       /\ req[c].code # OK
                                       /\ req[c].pre = NoSession]]
    /\ UNCHANGED <<backend, others, session, nextId, rtvars, exits,
                   late_output, failed>>
    /\ kept' = NoKept

\* the response in the request loop, where requests follow one another
Respond(c) == WriteResponse(c, TRUE)

\* the response of one of two concurrent handler threads
RespondRace(c) == WriteResponse(c, FALSE)

----------------------------------------------------------------------------
\* SingleSessionRPCServer._require_session: TRUE when it returns the runtime
RequireSession(h) ==
    /\ session # NoSession
    /\ ~(h # NoSession /\ h # session)

\* a handler that passes every argument on to the runtime
ArgAccepted(arg) == FALSE

\* the handler's own check: decode_b64 raises / rows <= 0 or cols <= 0
ArgRefused(arg) == arg = "bad"

\* _input / _resize up to the call of the runtime.
\* arg: "bad"    invalid base64 / rows <= 0 or cols <= 0 (RPCError -32602)
\*      "empty"  ext.input whose data decodes to b"" (write_input returns)
\*      "good"   a non-empty byte string / positive dimensions
Route(c, m, h, arg) ==
    /\ CanRead(c)
    /\ LET r0 == [Begin(c, m) EXCEPT !.h = h, !.bad = (m = "resize" /\ arg = "bad"),
                                     !.stale = (h # NoSession /\ exits[h] > 0)]
       IN req' = [req EXCEPT ![c] =
              IF ~RequireSession(h) THEN Answer(c, r0, ERR_SESSION_NOT_FOUND)
              ELSE IF ArgRefused(arg) THEN Answer(c, r0, ERR_INVALID_PARAMS)
              ELSE IF arg = "empty" THEN Answer(c, r0, OK)
              ELSE [r0 EXCEPT !.pc = "forward", !.rt = session]]
    /\ UNCHANGED <<backend, others, session, nextId, rtvars, obsvars>>
    /\ kept' = NoKept

Input(c, h, arg) == Route(c, "input", h, arg)

Resize(c, h, arg) == arg # "empty" /\ Route(c, "resize", h, arg)

\* runtime.write_input / runtime.resize: the _stopped check, then the
\* transport's send_input / send_resize (tmux: _send_cmd)
Forward(c) ==
    /\ req[c].pc = "forward"
    /\ LET s == req[c].rt IN
       req' = [req EXCEPT ![c] =
           IF stopped[s] THEN Answer(c, req[c], OK)
           ELSE IF backend = "bridge"
           THEN IF closed[s] THEN Answer(c, req[c], ERR_INTERNAL)
                ELSE Answer(c, [req[c] EXCEPT !.fwd = TRUE], OK)
           ELSE Answer(c, [req[c] EXCEPT !.fwd = (child[s] = "running")], OK)]
    /\ UNCHANGED <<backend, others, session, nextId, rtvars, obsvars>>
    /\ kept' = NoKept

\* a _stop that takes only the exact handle
StopMatchesExact(h) ==
    session # NoSession /\ h = session

\* SingleSessionRPCServer._stop: TRUE when the handle selects the session
StopMatches(h) ==
    session # NoSession /\ (h = NoSession \/ h = session)

\* _stop, one lock section: runtime.stop() and the slot cleared
Stop(c, h) ==
    /\ CanRead(c)
    /\ IF StopMatches(h)
       THEN /\ stopped' = StopFlag(session)
            /\ closed' = CloseAfterStop(session)
            /\ session' = NoSession
       ELSE UNCHANGED <<stopped, closed, session>>
    /\ req' = [req EXCEPT ![c] =
           Answer(c, [Begin(c, "stop") EXCEPT !.h = h], OK)]
    /\ UNCHANGED <<backend, others, nextId, exit_sent, exit_emitted, attached_event,
                   attach_error, reader, waiter, child, obsvars>>
    /\ kept' = NoKept

\* SingleSessionRPCServer._health
Health(c) ==
    /\ CanRead(c)
    /\ req' = [req EXCEPT ![c] =
           Answer(c, [Begin(c, "health") EXCEPT !.active = (session # NoSession)],
                  OK)]
    /\ UNCHANGED <<backend, others, session, nextId, rtvars, obsvars>>
    /\ kept' = NoKept

\* a hook that leaves the runtime in the slot
CleanupKeepsSlot == session

\* _cleanup: self._session = None
CleanupSlot == NoSession

\* stdin EOF: run leaves its loop and calls the on_close hook; _cleanup's
\* lock section takes the runtime out of the slot
Cleanup ==
    /\ CanRead("main")
    /\ req' = [req EXCEPT !["main"] =
           [Idle EXCEPT !.pc = "cleanup", !.m = "close", !.rt = session]]
    /\ session' = CleanupSlot
    /\ UNCHANGED <<backend, others, nextId, rtvars, obsvars>>
    /\ kept' = NoKept

\* _cleanup: runtime.stop() outside the lock; run returns 0
CleanupStop ==
    /\ req["main"].pc = "cleanup"
    /\ LET s == req["main"].rt IN
       IF s # NoSession
       THEN /\ stopped' = StopFlag(s)
            /\ closed' = CloseAfterStop(s)
       ELSE UNCHANGED <<stopped, closed>>
    /\ req' = [req EXCEPT !["main"].pc = "returned"]
    /\ UNCHANGED <<backend, others, session, nextId, exit_sent, exit_emitted,
                   attached_event, attach_error, reader, waiter, child, obsvars>>
    /\ kept' = NoKept

----------------------------------------------------------------------------
\* Iterm2SocketTransport._read_loop / _handle_frame, the reader thread of a
\* bridge runtime.  The bridge is free to send any frame at any time, so the
\* readline and the first shared step of the frame's handling are one action.

\* Iterm2SocketTransport._emit_exit_once: the gate is open
EmitExitOnce(s) == ~exit_emitted[s]

\* TerminalBridgeRuntime._on_exit: the gate is open
OnExit(s) == ~exit_sent[s]

\* exit reports that no gate holds back
ExitGateAlwaysOpen(s) == TRUE

\* an exit report passes the transport's gate and then the runtime's
ExitGate(s) == EmitExitOnce(s) /\ OnExit(s)

\* TerminalBridgeRuntime._on_output: the check under the lock lets the chunk pass
OnOutput(s) == ~stopped[s]

\* frame {"type":"attached"}
ReadAttached(s) ==
    /\ reader[s] = "loop" /\ ~closed[s]
    /\ attached_event' = [attached_event EXCEPT ![s] = TRUE]
    /\ UNCHANGED <<backend, others, session, nextId, stopped, exit_sent, closed,
                   exit_emitted, attach_error, reader, waiter, child, req, obsvars>>
    /\ kept' = NoKept

\* frame {"type":"output"} with a non-empty decodable payload, up to the
\* release of the runtime's lock in _on_output
ReadOutput(s) ==
    /\ reader[s] = "loop" /\ ~closed[s]
    /\ reader' = [reader EXCEPT ![s] = IF OnOutput(s) THEN "out_emit" ELSE "loop"]
    /\ UNCHANGED <<backend, others, session, nextId, stopped, exit_sent, closed,
                   exit_emitted, attached_event, attach_error, waiter, child, req,
                   obsvars>>
    /\ kept' = NoKept

\* _on_output after the lock: self._emit_output(handle, data) writes event.output
EmitOutput(s) ==
    /\ reader[s] = "out_emit"
    /\ late_output' = [late_output EXCEPT ![s] = @ \/ stopped[s]]
    /\ req' = Early(s)
    /\ reader' = [reader EXCEPT ![s] = "loop"]
    /\ UNCHANGED <<backend, others, session, nextId, stopped, exit_sent, closed,
                   exit_emitted, attached_event, attach_error, waiter, child,
                   exits, failed, returned>>
    /\ kept' = NoKept

\* An exit report of the reader thread: the pre-attach bookkeeping, the two
\* gates and the lock section of the facade's _emit_exit.  next: the reader's
\* position before the notification is written; skip: its position when a
\* gate is shut and the report returns without a notification.
ReportExit(s, next, skip) ==
    /\ attach_error' = [attach_error EXCEPT ![s] = @ \/ ~attached_event[s]]
    /\ attached_event' = [attached_event EXCEPT ![s] = TRUE]
    /\ IF ExitGate(s)
       THEN /\ exit_emitted' = [exit_emitted EXCEPT ![s] = TRUE]
            /\ exit_sent' = [exit_sent EXCEPT ![s] = TRUE]
            /\ session' = ClearSlot(s)
            /\ reader' = [reader EXCEPT ![s] = next]
       ELSE /\ reader' = [reader EXCEPT ![s] = skip]
            /\ UNCHANGED <<exit_emitted, exit_sent, session>>
    /\ UNCHANGED <<backend, others, nextId, stopped, closed, waiter, child, req, exits,
                   late_output, failed, returned>>
    /\ kept' = IF ExitGate(s) THEN Kept(s) ELSE NoKept

\* frame {"type":"error"} or {"type":"exit"}
ReadExit(s) ==
    /\ reader[s] = "loop" /\ ~closed[s]
    /\ ReportExit(s, "exit_notify", "exit_dropped")

\* readline returns b"": the bridge disconnected, or close() shut the socket
\* down under a blocked readline
ReadEOF(s) ==
    /\ reader[s] = "loop"
    /\ ReportExit(s, "eof_notify", "eof_dropped")

\* after close(): the loop finds self._reader is None and breaks, or readline
\* on the closed file raises and ends the thread
ReaderBreak(s) ==
    /\ reader[s] = "loop" /\ closed[s]
    /\ reader' = [reader EXCEPT ![s] = "done"]
    /\ UNCHANGED <<backend, others, session, nextId, stopped, exit_sent, closed,
                   exit_emitted, attached_event, attach_error, waiter, child, req,
                   obsvars>>
    /\ kept' = NoKept

\* _emit_exit_once / _on_exit return at a shut gate: back to the loop after
\* a frame, out of it after EOF
ExitDropped(s) ==
    /\ reader[s] \in {"exit_dropped", "eof_dropped"}
    /\ reader' = [reader EXCEPT ![s] = IF @ = "exit_dropped" THEN "loop" ELSE "done"]
    /\ UNCHANGED <<backend, others, session, nextId, stopped, exit_sent, closed,
                   exit_emitted, attached_event, attach_error, waiter, child, req,
                   obsvars>>
    /\ kept' = NoKept

\* SingleSessionRPCServer._emit_exit after the lock: rpc.notify("event.exit")
ExitNotify(s) ==
    /\ reader[s] \in {"exit_notify", "eof_notify"}
    /\ exits' = [exits EXCEPT ![s] = Cap2(@)]
    /\ req' = Early(s)
    /\ reader' = [reader EXCEPT ![s] = IF @ = "exit_notify" THEN "loop" ELSE "done"]
    /\ UNCHANGED <<backend, others, session, nextId, stopped, exit_sent, closed,
                   exit_emitted, attached_event, attach_error, waiter, child,
                   late_output, failed, returned>>
    /\ kept' = NoKept

----------------------------------------------------------------------------
\* TmuxControlSession: the reader thread, the wait thread and the child

\* _read_loop: the loop condition "while not self._stopped.is_set()"
ReaderTop(s) ==
    /\ reader[s] = "t_top"
    /\ reader' = [reader EXCEPT ![s] = IF stopped[s] THEN "done" ELSE "t_read"]
    /\ UNCHANGED <<backend, others, session, nextId, stopped, exit_sent, closed,
                   exit_emitted, attached_event, attach_error, waiter, child, req,
                   obsvars>>
    /\ kept' = NoKept

\* _read_loop: readline returns a line; emit: it is an %output line of the
\* target pane with a non-empty payload, written as an event.output
ReadLine(s, emit) ==
    /\ reader[s] = "t_read"
    /\ reader' = [reader EXCEPT ![s] = "t_top"]
    /\ late_output' = IF emit THEN [late_output EXCEPT ![s] = @ \/ stopped[s]]
                      ELSE late_output
    /\ req' = IF emit THEN Early(s) ELSE req
    /\ UNCHANGED <<backend, others, session, nextId, stopped, exit_sent, closed,
                   exit_emitted, attached_event, attach_error, waiter, child,
                   exits, failed, returned>>
    /\ kept' = NoKept

\* _read_loop: readline returns b"" once the child has closed its stdout
ReadPipeEOF(s) ==
    /\ reader[s] = "t_read" /\ child[s] = "exited"
    /\ reader' = [reader EXCEPT ![s] = "done"]
    /\ UNCHANGED <<backend, others, session, nextId, stopped, exit_sent, closed,
                   exit_emitted, attached_event, attach_error, waiter, child, req,
                   obsvars>>
    /\ kept' = NoKept

\* the tmux -C child exits (on its own, or on the SIGINT of stop())
ChildExit(s) ==
    /\ child[s] = "running"
    /\ child' = [child EXCEPT ![s] = "exited"]
    /\ UNCHANGED <<backend, others, session, nextId, stopped, exit_sent, closed,
                   exit_emitted, attached_event, attach_error, reader, waiter, req,
                   obsvars>>
    /\ kept' = NoKept

\* _wait_loop: proc.wait() returns; the lock section of the facade's _emit_exit
WaitReap(s) ==
    /\ waiter[s] = "wait" /\ child[s] = "exited"
    /\ session' = ClearSlot(s)
    /\ waiter' = [waiter EXCEPT ![s] = "notify"]
    /\ UNCHANGED <<backend, others, nextId, stopped, exit_sent, closed, exit_emitted,
                   attached_event, attach_error, reader, child, req, exits,
                   late_output, failed, returned>>
    /\ kept' = Kept(s)

\* _wait_loop: rpc.notify("event.exit"), then the thread ends
WaitNotify(s) ==
    /\ waiter[s] = "notify"
    /\ exits' = [exits EXCEPT ![s] = Cap2(@)]
    /\ req' = Early(s)
    /\ waiter' = [waiter EXCEPT ![s] = "done"]
    /\ UNCHANGED <<backend, others, session, nextId, stopped, exit_sent, closed,
                   exit_emitted, attached_event, attach_error, reader, child,
                   late_output, failed, returned>>
    /\ kept' = NoKept

----------------------------------------------------------------------------
StartOutcomes == {"badparams", "nothread", "ok"}

Args == {"bad", "empty", "good"}

\* ext.start run by request thread c
StartHandler(c) ==
    \/ \E o \in StartOutcomes : Start(c, o)
    \/ ConnectWake(c)
    \/ ConnectTimeout(c)
    \/ \E e \in BOOLEAN : Capture(c, e)
    \/ StartInstall(c)

\* the other handlers, run by request thread c
Handler(c) ==
    \/ \E h \in Handles, a \in Args : Input(c, h, a)
    \/ \E h \in Handles, a \in Args : Resize(c, h, a)
    \/ Forward(c)
    \/ \E h \in Handles : Stop(c, h)
    \/ Health(c)

\* the backend threads and the backend itself
Backend ==
    \E s \in Sessions :
        \/ ReadAttached(s)
        \/ ReadOutput(s)
        \/ EmitOutput(s)
        \/ ReadExit(s)
        \/ ReadEOF(s)
        \/ ReaderBreak(s)
        \/ ExitDropped(s)
        \/ ExitNotify(s)
        \/ ReaderTop(s)
        \/ \E e \in BOOLEAN : ReadLine(s, e)
        \/ ReadPipeEOF(s)
        \/ ChildExit(s)
        \/ WaitReap(s)
        \/ WaitNotify(s)

\* the program as shipped: JsonRPCServer.run is the only thread that runs handlers
Next ==
    \/ StartHandler("main")
    \/ Handler("main")
    \/ Respond("main")
    \/ Cleanup
    \/ CleanupStop
    \/ Backend

Spec == Init /\ [][Next]_vars

\* two threads run _start at the same time, the situation its second lock
\* section is written for; the hub sends nothing but ext.start, with
\* parameters that start_session accepts
NextRace ==
    \/ \E c \in Callers :
          \/ Start(c, "ok")
          \/ ConnectWake(c)
          \/ ConnectTimeout(c)
          \/ \E e \in BOOLEAN : Capture(c, e)
          \/ StartInstall(c)
          \/ RespondRace(c)
    \/ Backend

SpecRace == Init /\ [][NextRace]_vars

----------------------------------------------------------------------------
\* _JSONLineIO.send, one step per call on sys.stdout

mainvars == <<backend, session, nextId, rtvars, req, obsvars, kept>>

\* send that does not wait for the lock
LockIgnored == TRUE

\* "with self._write_lock" can be entered
LockFree == io.lock = "free"

\* json.dumps(obj) and the entry of the with block
IOAcquire(w) ==
    /\ io.pc[w] = "idle" /\ io.sent[w] < MaxSends
    /\ LockFree
    /\ io' = [io EXCEPT !.lock = w, !.pc[w] = "line"]
    /\ UNCHANGED <<mainvars, rpc, term, par, sio, conn, tmx, tcs, oct, pbs, lk>>

\* sys.stdout.write(line): the k-th frame of writer w
IOWriteLine(w) ==
    /\ io.pc[w] = "line"
    /\ io' = [io EXCEPT !.out = Append(@, <<w, io.sent[w] + 1, "line">>),
                        !.pc[w] = "newline"]
    /\ UNCHANGED <<mainvars, rpc, term, par, sio, conn, tmx, tcs, oct, pbs, lk>>

\* sys.stdout.write("\n")
IOWriteNewline(w) ==
    /\ io.pc[w] = "newline"
    /\ io' = [io EXCEPT !.out = Append(@, <<w, io.sent[w] + 1, "\n">>),
                        !.pc[w] = "flush"]
    /\ UNCHANGED <<mainvars, rpc, term, par, sio, conn, tmx, tcs, oct, pbs, lk>>

\* sys.stdout.flush() and the exit of the with block
IOFlush(w) ==
    /\ io.pc[w] = "flush"
    /\ io' = [io EXCEPT !.flushed = Len(io.out), !.lock = "free",
                        !.sent[w] = @ + 1, !.pc[w] = "idle"]
    /\ UNCHANGED <<mainvars, rpc, term, par, sio, conn, tmx, tcs, oct, pbs, lk>>

NextIO ==
    \E w \in Writers :
        \/ IOAcquire(w)
        \/ IOWriteLine(w)
        \/ IOWriteNewline(w)
        \/ IOFlush(w)

InitIO == FacadeInit /\ Parts("io")

SpecIO == InitIO /\ [][NextIO]_vars

----------------------------------------------------------------------------
\* JsonRPCServer.run, one line of stdin at a time

ERR_METHOD_NOT_FOUND == -32601

\* what the "params" member of a request can be
ParamKinds == {"missing", "null", "empty_object", "object", "empty_list", "list",
               "empty_string", "string", "zero", "number", "false", "true"}

\* the "method" member: missing, "", not a string, registered, not registered
MethodKinds == {"missing", "empty", "nonstring", "known", "unknown"}

\* the "id" member
IdKinds == {"missing", "null", "7"}

\* what the handler does when it is called; an RPCError carries code 4004
Outcomes == {"result", "rpcerror", "exception"}

\* the lines of stdin: blank, not JSON, JSON but no object, or an object
Lines ==
    {[NoLine EXCEPT !.kind = k] : k \in {"blank", "badjson", "nonobject"}}
    \cup [kind : {"object"}, method : MethodKinds, id : IdKinds,
          params : ParamKinds, outcome : Outcomes]

\* the values of params that Python takes as false
Falsy(p) ==
    p \in {"missing", "null", "empty_object", "empty_list", "empty_string",
           "zero", "false"}

\* a params check that takes every value as an object
AnyParams(l) == TRUE

\* params = req.get("params") or {}; isinstance(params, dict)
ParamsIsDict(l) == (IF Falsy(l.params) THEN "empty_object" ELSE l.params)
                   \in {"empty_object", "object"}

\* req_id = req.get("id", 0)
RequestId(l) == IF l.id = "missing" THEN "0" ELSE l.id

\* self._error(req_id, code, message)
ErrorFrame(l, code) == [id |-> RequestId(l), kind |-> "error", code |-> code]

\* a loop that drops only what is no JSON object
DroppedUnlessObject(l) == l.kind # "object"

\* the four "continue" at the head of the loop: the line is blank, is no
\* JSON, is no object, or its method is no string or the empty string
Dropped(l) ==
    \/ l.kind # "object"
    \/ l.method \in {"missing", "empty", "nonstring"}

\* for raw in self._io.lines()
RPCRead(l) ==
    /\ rpc.pc = "idle"
    /\ rpc' = [RPCInit EXCEPT !.pc = "line", !.line = l]
    /\ UNCHANGED <<mainvars, io, term, par, sio, conn, tmx, tcs, oct, pbs, lk>>

\* the body of the loop for the line in hand: the frames it sends and
\* whether it calls the handler
RPCProcess ==
    /\ rpc.pc = "line"
    /\ LET l == rpc.line
       IN rpc' =
            IF Dropped(l) THEN [rpc EXCEPT !.pc = "done"]
            ELSE IF ~ParamsIsDict(l)
            THEN [rpc EXCEPT !.pc = "done",
                             !.out = <<ErrorFrame(l, ERR_INVALID_PARAMS)>>]
            ELSE IF l.method = "unknown"
            THEN [rpc EXCEPT !.pc = "done",
                             !.out = <<ErrorFrame(l, ERR_METHOD_NOT_FOUND)>>]
            ELSE [rpc EXCEPT
                    !.pc = "done", !.invoked = TRUE,
                    !.out = <<IF l.outcome = "result"
                              THEN [id |-> RequestId(l), kind |-> "result", code |-> OK]
                              ELSE IF l.outcome = "rpcerror"
                              THEN ErrorFrame(l, ERR_SESSION_NOT_FOUND)
                              ELSE ErrorFrame(l, ERR_INTERNAL)>>]
    /\ UNCHANGED <<mainvars, io, term, par, sio, conn, tmx, tcs, oct, pbs, lk>>

\* the loop goes on to the next line
RPCNextLine ==
    /\ rpc.pc = "done"
    /\ rpc' = RPCInit
    /\ UNCHANGED <<mainvars, io, term, par, sio, conn, tmx, tcs, oct, pbs, lk>>

NextRPC == (\E l \in Lines : RPCRead(l)) \/ RPCProcess \/ RPCNextLine

InitRPC == FacadeInit /\ Parts("rpc")

SpecRPC == InitRPC /\ [][NextRPC]_vars

----------------------------------------------------------------------------
\* One runtime (TerminalBridgeRuntime over Iterm2SocketTransport, or
\* TmuxControlSession) driven through start_session, resize, write_input and
\* stop, as the facade's handlers drive it from the request thread.

DEFAULT_ROWS == 24
DEFAULT_COLS == 80

\* rows / cols of a request or of an attached frame; 0 also stands for a
\* missing member ("params.get('rows') or default" treats both alike)
Dims == -1..MaxDim

\* "v or d"
OrDefault(v, d) == IF v = 0 THEN d ELSE v

\* a start that takes the dimension as given
ParseDimUnchecked(v, d) == OrDefault(v, d)

\* parse_terminal_bridge_start: int(params.get("rows") or default_rows), then
\* the default again if the value is <= 0 (tmux: int(... or 24) in
\* start_tmux_control_session and the same clamp in start)
ParseDim(v, d) == LET x == OrDefault(v, d) IN IF x <= 0 THEN d ELSE x

\* Iterm2SocketTransport.connect: the geometry of the attached frame, or
\* None (<<0, 0>>) unless both are positive
Ready(ar, ac) == IF ar > 0 /\ ac > 0 THEN <<ar, ac>> ELSE <<0, 0>>

\* start_session: the runtime is built with requested dimensions r, c; the
\* bridge answers with an attached frame carrying ar, ac
TermStart(r, c, ar, ac) ==
    /\ term.pc = "new"
    /\ LET rows0 == ParseDim(r, DEFAULT_ROWS)
           cols0 == ParseDim(c, DEFAULT_COLS)
           ready == Ready(ar, ac)
       IN term' = [term EXCEPT
              !.pc = "live", !.op = "start",
              !.rows = IF backend = "bridge" /\ ready[1] > 0 THEN ready[1] ELSE rows0,
              !.cols = IF backend = "bridge" /\ ready[2] > 0 THEN ready[2] ELSE cols0,
              !.child = IF backend = "tmux" THEN "running" ELSE "none"]
    /\ UNCHANGED <<mainvars, io, rpc, par, sio, conn, tmx, tcs, oct, pbs, lk>>

\* runtime.resize(r, c)
TermResize(r, c) ==
    /\ term.pc = "live"
    /\ LET t0 == [term EXCEPT !.op = "resize", !.data = <<>>, !.wire = <<>>,
                              !.live = FALSE]
       IN term' =
            IF r <= 0 \/ c <= 0 THEN t0
            ELSE IF backend = "bridge"
            THEN IF term.stopped THEN t0
                 ELSE [t0 EXCEPT !.rows = r, !.cols = c,
                                 !.wire = <<[type |-> "resize", rows |-> r, cols |-> c]>>]
            ELSE [t0 EXCEPT !.rows = r, !.cols = c,
                            !.wire = IF term.stopped \/ term.child # "running"
                                     THEN <<>>
                                     ELSE <<[type |-> "refresh-client", rows |-> r, cols |-> c]>>]
    /\ UNCHANGED <<mainvars, io, rpc, par, sio, conn, tmx, tcs, oct, pbs, lk>>

\* a stop() that never finds the flag set
NeverStopped == FALSE

\* TerminalBridgeRuntime.stop: "if self._stopped: return"
AlreadyStopped == term.stopped

\* runtime.stop(): bridge, the flag and then transport.close(), which sends
\* the detach frame unless _closed; tmux, the flag, stdin closed and SIGINT
TermStop ==
    /\ term.pc = "live"
    /\ LET t0 == [term EXCEPT !.op = "stop", !.data = <<>>, !.wire = <<>>,
                              !.live = FALSE, !.stops = Cap2(@)]
       IN term' =
            IF backend = "bridge"
            THEN IF AlreadyStopped THEN t0
                 ELSE [t0 EXCEPT !.stopped = TRUE,
                                 !.closes = Cap2(@),
                                 !.closed = TRUE,
                                 !.detaches = IF term.closed THEN @ ELSE Cap2(@)]
            ELSE [t0 EXCEPT !.stopped = TRUE]
    /\ UNCHANGED <<mainvars, io, rpc, par, sio, conn, tmx, tcs, oct, pbs, lk>>

\* the byte values tried
Bytes == {0, 10, 255}

ByteStrings == UNION {[1..n -> Bytes] : n \in 0..MaxLen}

\* base64: a character of the alphabet is modelled by its index 0..63, the
\* padding character "=" by 64
Pad == 64

\* base64.b64encode of one group of 3, 2 or 1 bytes
EncodeGroup(g) ==
    LET n == g[1] * 65536 + (IF Len(g) > 1 THEN g[2] * 256 ELSE 0)
               + (IF Len(g) > 2 THEN g[3] ELSE 0)
    IN <<n \div 262144,
         (n \div 4096) % 64,
         IF Len(g) > 1 THEN (n \div 64) % 64 ELSE Pad,
         IF Len(g) > 2 THEN n % 64 ELSE Pad>>

RECURSIVE encode_b64(_)
\* sdk.encode_b64: base64.b64encode(data)
encode_b64(data) ==
    IF Len(data) = 0 THEN <<>>
    ELSE IF Len(data) <= 3 THEN EncodeGroup(data)
    ELSE EncodeGroup(SubSeq(data, 1, 3)) \o encode_b64(SubSeq(data, 4, Len(data)))

\* base64.b64decode of one group of 4 characters
DecodeGroup(q) ==
    LET v(i) == IF q[i] = Pad THEN 0 ELSE q[i]
        n == v(1) * 262144 + v(2) * 4096 + v(3) * 64 + v(4)
        bytes == <<n \div 65536, (n \div 256) % 256, n % 256>>
    IN SubSeq(bytes, 1, IF q[3] = Pad THEN 1 ELSE IF q[4] = Pad THEN 2 ELSE 3)

RECURSIVE decode_b64(_)
\* sdk.decode_b64: base64.b64decode(text), on text that encode_b64 produced
decode_b64(text) ==
    IF Len(text) < 4 THEN <<>>
    ELSE DecodeGroup(SubSeq(text, 1, 4)) \o decode_b64(SubSeq(text, 5, Len(text)))

HexDigits == <<"0", "1", "2", "3", "4", "5", "6", "7",
               "8", "9", "a", "b", "c", "d", "e", "f">>

\* a byte formatted without the leading zero
HexUnpadded(b) ==
    IF b < 16 THEN <<HexDigits[b + 1]>>
    ELSE <<HexDigits[(b \div 16) + 1], HexDigits[(b % 16) + 1]>>

\* f"{b:02x}" in TmuxControlSession.write_input
Hex2(b) == <<HexDigits[(b \div 16) + 1], HexDigits[(b % 16) + 1]>>

\* the byte tmux send-keys -H makes of two hexadecimal digits
Unhex(h) ==
    LET val(ch) == CHOOSE i \in 0..15 : HexDigits[i + 1] = ch
    IN 16 * val(h[1]) + val(h[2])

\* runtime.write_input(data): bridge, one input frame; tmux, one send-keys
\* command per byte, each dropped when stopped or when the pipe is broken
TermWriteInput(data) ==
    /\ term.pc = "live"
    /\ LET gone == term.stopped \/ (backend = "tmux" /\ term.child # "running")
       IN term' = [term EXCEPT
              !.op = "input", !.data = data, !.live = ~gone,
              !.wire = IF gone \/ data = <<>> THEN <<>>
                       ELSE IF backend = "bridge"
                       THEN <<[type |-> "input", data_b64 |-> encode_b64(data)]>>
                       ELSE [i \in 1..Len(data) |->
                                [type |-> "send-keys", hex |-> Hex2(data[i])]]]
    /\ UNCHANGED <<mainvars, io, rpc, par, sio, conn, tmx, tcs, oct, pbs, lk>>

\* the tmux -C child exits
TermChildExit ==
    /\ term.pc = "live" /\ term.child = "running"
    /\ term' = [term EXCEPT !.child = "exited"]
    /\ UNCHANGED <<mainvars, io, rpc, par, sio, conn, tmx, tcs, oct, pbs, lk>>

NextTerm ==
    \/ \E r, c, ar, ac \in Dims : TermStart(r, c, ar, ac)
    \/ \E r, c \in Dims : TermResize(r, c)
    \/ \E data \in ByteStrings : TermWriteInput(data)
    \/ TermStop
    \/ TermChildExit

InitTerm == FacadeInit /\ Parts("term")

SpecTerm == InitTerm /\ [][NextTerm]_vars

----------------------------------------------------------------------------
\* The parameters of ext.start, ext.input and ext.resize: what the handlers
\* of SingleSessionRPCServer and parse_terminal_bridge_start make of each
\* value, and what JsonRPCServer.run answers.

\* a character that is not in the base64 alphabet
Junk == 65

\* a member of params where a number is expected: an integer (0 also stands
\* for a missing member), a string of digits, another string, or a list
DimValues ==
    [t : {"int"}, n : Dims] \cup [t : {"digits"}, n : 1..MaxDim]
    \cup [t : {"text", "list"}, n : {0}]

\* "params.get(name) or d": only the integer 0 (or nothing) is false
ValueOrDefault(v, d) == IF v.t = "int" /\ v.n = 0 THEN [t |-> "int", n |-> d] ELSE v

\* int(v) raises ValueError on a string that is no number, TypeError on a list
IntRaises(v) == v.t \in {"text", "list"}

\* int(v) where it returns
IntOf(v) == v.n

\* the data_b64 of an ext.input: the encoding of some bytes, with some of its
\* last characters cut off, possibly after a character outside the alphabet
B64Texts ==
    {(IF junk THEN <<Junk>> ELSE <<>>)
        \o SubSeq(encode_b64(d), 1, Len(encode_b64(d)) - cut) :
     d \in ByteStrings, cut \in 0..3, junk \in BOOLEAN}

\* base64.b64decode(text) without validate: characters outside the alphabet
\* are discarded before the padding check
B64Discard(text) == SelectSeq(text, LAMBDA ch : ch # Junk)

\* binascii.Error: the number of characters left is no multiple of 4
B64Raises(text) == Len(B64Discard(text)) % 4 # 0

\* text is the base64 encoding of some bytes: every character is of the
\* alphabet and encoding what it decodes to gives the text again
B64Valid(text) ==
    /\ B64Discard(text) = text
    /\ ~B64Raises(text)
    /\ encode_b64(decode_b64(text)) = text

\* the session as the claim means it: slot, rows, cols, stopped flag
ParSession == <<par.handle, par.installed, par.rows, par.cols, par.stopped>>

\* JsonRPCServer.run calls the handler of m
ParBegin(m, perr) ==
    [par EXCEPT !.pc = "done", !.m = m, !.perr = perr, !.code = OK,
                !.fwd = FALSE, !.before = ParSession]

\* _require_session(handle)
ParRequire(h) == par.installed /\ ~(h # NoSession /\ h # par.handle)

\* ext.start: _start and start_terminal_bridge_session up to the runtime's
\* construction, on a transport that attaches
ParStart(target, rows, cols) ==
    /\ par.pc = "idle" /\ par.handle < MaxSessions
    /\ LET p0 == ParBegin("start",
                          ~target \/ rows.t \in {"text", "list"}
                                  \/ cols.t \in {"text", "list"})
           r == ValueOrDefault(rows, DEFAULT_ROWS)
           c == ValueOrDefault(cols, DEFAULT_COLS)
       IN par' =
            IF par.installed THEN [p0 EXCEPT !.code = ERR_SESSION_RUNNING]
            ELSE IF ~target THEN [p0 EXCEPT !.code = ERR_INVALID_PARAMS]
            ELSE IF IntRaises(r) \/ IntRaises(c) THEN [p0 EXCEPT !.code = ERR_INTERNAL]
            ELSE [p0 EXCEPT !.handle = @ + 1, !.installed = TRUE,
                            !.stopped = FALSE,
                            !.rows = IF IntOf(r) <= 0 THEN DEFAULT_ROWS ELSE IntOf(r),
                            !.cols = IF IntOf(c) <= 0 THEN DEFAULT_COLS ELSE IntOf(c)]
    /\ UNCHANGED <<mainvars, io, rpc, term, sio, conn, tmx, tcs, oct, pbs, lk>>

\* ext.resize
ParResize(h, rows, cols) ==
    /\ par.pc = "idle"
    /\ LET p0 == ParBegin("resize",
                          \/ rows.t \in {"text", "list"} \/ cols.t \in {"text", "list"}
                          \/ rows.n <= 0 \/ cols.n <= 0)
           r == ValueOrDefault(rows, 0)
           c == ValueOrDefault(cols, 0)
       IN par' =
            IF ~ParRequire(h) THEN [p0 EXCEPT !.code = ERR_SESSION_NOT_FOUND]
            ELSE IF IntRaises(r) THEN [p0 EXCEPT !.code = ERR_INTERNAL]
            ELSE IF IntRaises(c) THEN [p0 EXCEPT !.code = ERR_INTERNAL]
            ELSE IF IntOf(r) <= 0 \/ IntOf(c) <= 0
            THEN [p0 EXCEPT !.code = ERR_INVALID_PARAMS]
            ELSE [p0 EXCEPT !.fwd = TRUE, !.rows = IntOf(r), !.cols = IntOf(c)]
    /\ UNCHANGED <<mainvars, io, rpc, term, sio, conn, tmx, tcs, oct, pbs, lk>>

\* ext.input
ParInput(h, text) ==
    /\ par.pc = "idle"
    /\ LET p0 == ParBegin("input", ~B64Valid(text))
       IN par' =
            IF ~ParRequire(h) THEN [p0 EXCEPT !.code = ERR_SESSION_NOT_FOUND]
            ELSE IF B64Raises(text) THEN [p0 EXCEPT !.code = ERR_INVALID_PARAMS]
            ELSE [p0 EXCEPT !.fwd = TRUE]
    /\ UNCHANGED <<mainvars, io, rpc, term, sio, conn, tmx, tcs, oct, pbs, lk>>

\* ext.stop
ParStop(h) ==
    /\ par.pc = "idle"
    /\ LET p0 == ParBegin("stop", FALSE)
       IN par' = IF par.installed /\ (h = NoSession \/ h = par.handle)
                 THEN [p0 EXCEPT !.installed = FALSE, !.stopped = TRUE]
                 ELSE p0
    /\ UNCHANGED <<mainvars, io, rpc, term, sio, conn, tmx, tcs, oct, pbs, lk>>

\* the response is written and the loop reads the next line
ParRespond ==
    /\ par.pc = "done"
    /\ par' = [par EXCEPT !.pc = "idle"]
    /\ UNCHANGED <<mainvars, io, rpc, term, sio, conn, tmx, tcs, oct, pbs, lk>>

NextPar ==
    \/ \E target \in BOOLEAN, rows, cols \in DimValues : ParStart(target, rows, cols)
    \/ \E h \in Handles, rows, cols \in DimValues : ParResize(h, rows, cols)
    \/ \E h \in Handles, text \in B64Texts : ParInput(h, text)
    \/ \E h \in Handles : ParStop(h)
    \/ ParRespond

InitPar == FacadeInit /\ Parts("par")

SpecPar == InitPar /\ [][NextPar]_vars

----------------------------------------------------------------------------
\* The Simple I/O variant: SimpleIOServer.run over a PTYSimpleIOAdapter, the
\* child on the pty, the adapter's read thread and its wait thread.

\* the lines of stdin by what run makes of them: blank, no JSON, no object;
\* a start frame (with a command that spawns, without command, with a
\* command that cannot be spawned, with rows that are no number); input,
\* resize (also with rows that are no number), stop, any other type
StartFrames == {"start", "start_empty", "start_fail", "start_badrows"}

SioFrames == {"blank", "badjson", "nonobject", "input", "resize",
              "resize_badrows", "stop", "other"} \cup StartFrames

\* the exit status of the child; negative when a signal ended it
ExitCodes == {-2, 0, 3}

\* what a frame carries beside its type
NoReason == [text |-> "none", n |-> 0]

\* f"invalid json: {err}"
InvalidJson == [text |-> "invalid json", n |-> 0]

\* str(err) of what on_start raised: the ValueError of an empty command, or
\* the OSError of Popen
StartError(f) ==
    IF f = "start_empty" THEN [text |-> "start.command is required", n |-> 0]
    ELSE [text |-> "No such file or directory", n |-> 2]

\* _wait_loop: "EOF" on status 0, f"exit status {code}" otherwise
ExitReason(code) ==
    IF code = 0 THEN [text |-> "EOF", n |-> 0]
    ELSE [text |-> "exit status", n |-> code]

\* a frame on stdout
SioFrame(type, reason) == [type |-> type, reason |-> reason]

\* an adapter whose on_start never raises
OnStartNeverRaises(f) == FALSE

\* PTYSimpleIOAdapter.on_start raises: "if not command", or Popen fails
OnStartRaises(f) == f \in {"start_empty", "start_fail"}

\* a loop that takes every start frame as the first
StartedIgnored == FALSE

\* SimpleIOServer.run: "if started: continue"
Started == sio.started

\* PTYSimpleIOAdapter.on_stop: the event is set, the master side closed and
\* the reference to the process dropped (the SIGINT is left to ChildExit)
OnStop(r) == [r EXCEPT !.stop_event = TRUE, !.fd = FALSE, !.procref = FALSE,
                       !.stops = Cap2(@)]

\* the body of run's loop for one line of stdin
SioHandle(f) ==
    /\ sio.pc = "loop"
    /\ LET r == [sio EXCEPT !.last = f, !.was_started = sio.started]
       IN sio' =
            IF f \in {"blank", "nonobject", "other", "input", "resize"} THEN r
            ELSE IF f = "badjson"
            THEN [r EXCEPT !.out = Append(@, SioFrame("exit", InvalidJson)),
                           !.pc = "returned", !.ret = 1]
            ELSE IF f = "resize_badrows" THEN [r EXCEPT !.pc = "raised"]
            ELSE IF f = "stop"
            THEN [OnStop(r) EXCEPT !.pc = "returned", !.ret = 0]
            ELSE IF Started THEN r
            ELSE IF f = "start_badrows" THEN [r EXCEPT !.pc = "raised"]
            ELSE IF OnStartRaises(f)
            THEN [r EXCEPT !.starts = Cap2(@),
                           !.out = Append(@, SioFrame("exit", StartError(f))),
                           !.pc = "returned", !.ret = 1]
            ELSE [r EXCEPT !.starts = Cap2(@), !.spawns = Cap2(@),
                           !.started = TRUE,
                           !.proc = "running", !.procref = TRUE, !.fd = TRUE,
                           !.reader = "loop", !.waiter = "begin",
                           !.pc = "ready"]
    /\ UNCHANGED <<mainvars, io, rpc, term, par, conn, tmx, tcs, oct, pbs, lk>>

\* run after on_start has returned, with the two threads running: the ready
\* frame is sent and the loop goes on
SioReady ==
    /\ sio.pc = "ready"
    /\ sio' = [sio EXCEPT !.pc = "loop",
                          !.out = Append(@, SioFrame("ready", NoReason))]
    /\ UNCHANGED <<mainvars, io, rpc, term, par, conn, tmx, tcs, oct, pbs, lk>>

\* stdin EOF: on_stop if started, return 0
SioEOF ==
    /\ sio.pc = "loop"
    /\ LET r == [sio EXCEPT !.last = "eof", !.was_started = sio.started,
                            !.pc = "returned", !.ret = 0]
       IN sio' = IF sio.started THEN OnStop(r) ELSE r
    /\ UNCHANGED <<mainvars, io, rpc, term, par, conn, tmx, tcs, oct, pbs, lk>>

\* run has returned or raised: the process exits and its daemon threads end
SioProcessExit ==
    /\ sio.pc \in {"returned", "raised"}
    /\ sio' = [sio EXCEPT !.pc = "exited"]
    /\ UNCHANGED <<mainvars, io, rpc, term, par, conn, tmx, tcs, oct, pbs, lk>>

\* the child writes a chunk to its terminal
SioChildWrite ==
    /\ sio.pc # "exited" /\ sio.proc = "running" /\ sio.produced < MaxSends
    /\ sio' = [sio EXCEPT !.pending = @ + 1, !.produced = @ + 1]
    /\ UNCHANGED <<mainvars, io, rpc, term, par, conn, tmx, tcs, oct, pbs, lk>>

\* the child exits
SioChildExit(code) ==
    /\ sio.pc # "exited" /\ sio.proc = "running"
    /\ sio' = [sio EXCEPT !.proc = "exited", !.code = code]
    /\ UNCHANGED <<mainvars, io, rpc, term, par, conn, tmx, tcs, oct, pbs, lk>>

\* _read_loop: the event is not set, the fd is there, os.read returns a chunk
SioReaderRead ==
    /\ sio.pc # "exited" /\ sio.reader = "loop"
    /\ ~sio.stop_event /\ sio.fd /\ sio.pending > 0
    /\ sio' = [sio EXCEPT !.pending = @ - 1, !.reader = "emit"]
    /\ UNCHANGED <<mainvars, io, rpc, term, par, conn, tmx, tcs, oct, pbs, lk>>

\* _read_loop: self._emit_output(chunk)
SioReaderEmit ==
    /\ sio.pc # "exited" /\ sio.reader = "emit"
    /\ sio' = [sio EXCEPT !.reader = "loop",
                          !.out = Append(@, SioFrame("output", NoReason))]
    /\ UNCHANGED <<mainvars, io, rpc, term, par, conn, tmx, tcs, oct, pbs, lk>>

\* _read_loop returns: the event is set, the fd is gone, or os.read fails or
\* returns nothing because the child has exited and the pty is drained
SioReaderEnd ==
    /\ sio.pc # "exited" /\ sio.reader = "loop"
    /\ sio.stop_event \/ ~sio.fd \/ (sio.proc = "exited" /\ sio.pending = 0)
    /\ sio' = [sio EXCEPT !.reader = "done"]
    /\ UNCHANGED <<mainvars, io, rpc, term, par, conn, tmx, tcs, oct, pbs, lk>>

\* _wait_loop: proc = self._proc; "EOF" at once if it is None
SioWaitBegin ==
    /\ sio.pc # "exited" /\ sio.waiter = "begin"
    /\ sio' = IF sio.procref THEN [sio EXCEPT !.waiter = "waiting"]
              ELSE [sio EXCEPT !.waiter = "notify", !.reason = ExitReason(0)]
    /\ UNCHANGED <<mainvars, io, rpc, term, par, conn, tmx, tcs, oct, pbs, lk>>

\* _wait_loop: proc.wait() returns the status
SioWaitReturn ==
    /\ sio.pc # "exited" /\ sio.waiter = "waiting" /\ sio.proc = "exited"
    /\ sio' = [sio EXCEPT !.waiter = "notify", !.reason = ExitReason(sio.code)]
    /\ UNCHANGED <<mainvars, io, rpc, term, par, conn, tmx, tcs, oct, pbs, lk>>

\* _notify_exit: the one-shot event, then SimpleIOServer.emit_exit
SioNotifyExit ==
    /\ sio.pc # "exited" /\ sio.waiter = "notify"
    /\ sio' = IF sio.exit_once THEN [sio EXCEPT !.waiter = "done"]
              ELSE [sio EXCEPT !.waiter = "done", !.exit_once = TRUE,
                               !.out = Append(@, SioFrame("exit", sio.reason))]
    /\ UNCHANGED <<mainvars, io, rpc, term, par, conn, tmx, tcs, oct, pbs, lk>>

NextSio ==
    \/ \E f \in SioFrames : SioHandle(f)
    \/ SioReady
    \/ SioEOF
    \/ SioProcessExit
    \/ SioChildWrite
    \/ \E code \in ExitCodes : SioChildExit(code)
    \/ SioReaderRead
    \/ SioReaderEmit
    \/ SioReaderEnd
    \/ SioWaitBegin
    \/ SioWaitReturn
    \/ SioNotifyExit

InitSio == FacadeInit /\ Parts("sio")

SpecSio == InitSio /\ [][NextSio]_vars

----------------------------------------------------------------------------
\* The handshake of a bridge runtime: TerminalBridgeRuntime.__init__ calls
\* Iterm2SocketTransport.connect, which opens the socket, starts the read
\* thread, sends the attach frame and waits for the attached event.

\* the "message" of an error frame, the "reason" of an exit frame
Messages == {"", "boom"}

\* str(frame.get("message") or "iterm2 bridge error"), and the same with
\* "reason" and "iterm2 bridge exit"
FrameMessage(type, m) ==
    IF m # "" THEN m
    ELSE IF type = "error" THEN "iterm2 bridge error" ELSE "iterm2 bridge exit"

\* a connect that does not look at the attach error
AttachErrorIgnored == FALSE

\* connect: "if self._attach_error"
AttachFailed == conn.error # "none"

\* a runtime that keeps the requested dimensions
KeepRequested(ready, rows, cols) == <<rows, cols>>

\* TerminalBridgeRuntime.__init__: each dimension of the pair that connect
\* returned is adopted if it is positive (<<0, 0>> stands for None)
Adopt(ready, rows, cols) ==
    <<IF ready[1] > 0 THEN ready[1] ELSE rows,
      IF ready[2] > 0 THEN ready[2] ELSE cols>>

\* connect is called with the rows and cols of parse_terminal_bridge_start.
\* outcome: "notarget" start.target is empty, "refused" _open_socket raises,
\* "ok" the read thread is started and the attach frame is sent
ConnStart(outcome, r, c) ==
    /\ conn.pc = "initial"
    /\ LET c0 == [conn EXCEPT !.start_rows = ParseDim(r, DEFAULT_ROWS),
                              !.start_cols = ParseDim(c, DEFAULT_COLS)]
       IN conn' =
            IF outcome = "notarget"
            THEN [c0 EXCEPT !.pc = "raised", !.msg = "iterm2 target is required"]
            ELSE IF outcome = "refused"
            THEN [c0 EXCEPT !.pc = "raised", !.msg = "connection refused"]
            ELSE [c0 EXCEPT !.pc = "waiting", !.reader = "loop"]
    /\ UNCHANGED <<mainvars, io, rpc, term, par, sio, tmx, tcs, oct, pbs, lk>>

\* what the read thread has seen first, as long as connect waits
ConnFirst(kind, m) ==
    IF conn.pc = "waiting" /\ conn.first = "none"
    THEN [conn EXCEPT !.first = kind, !.firstmsg = m]
    ELSE conn

\* _read_loop / _handle_frame on one line of the socket.  kind: "attached"
\* with rows ar and cols ac, "attached_bad" with rows that are no number (the
\* int() raises and the thread ends), "error" or "exit" with message m,
\* "output", "junk" (no JSON, no object, another type)
ConnRead(kind, m, ar, ac) ==
    /\ conn.reader = "loop"
    /\ conn' =
         IF kind = "attached"
         THEN [ConnFirst(kind, "none") EXCEPT !.rows = ar, !.cols = ac, !.event = TRUE]
         ELSE IF kind = "attached_bad" THEN [conn EXCEPT !.reader = "done"]
         ELSE IF kind \in {"error", "exit"}
         THEN [ConnFirst(kind, m) EXCEPT
                 !.error = IF conn.event THEN @ ELSE FrameMessage(kind, m),
                 !.event = TRUE,
                 !.exit_emitted = TRUE]
         ELSE conn
    /\ UNCHANGED <<mainvars, io, rpc, term, par, sio, tmx, tcs, oct, pbs, lk>>

\* _read_loop: readline returns nothing (the bridge has closed the socket,
\* or close() has shut it down)
ConnReadEOF ==
    /\ conn.reader = "loop"
    /\ conn' = [ConnFirst("eof", "none") EXCEPT
                  !.error = IF conn.event THEN @
                            ELSE "iterm2 bridge disconnected before attach",
                  !.event = TRUE,
                  !.exit_emitted = TRUE,
                  !.reader = "done"]
    /\ UNCHANGED <<mainvars, io, rpc, term, par, sio, tmx, tcs, oct, pbs, lk>>

\* connect: the wait returns with the event set; close() and raise on an
\* attach error, else the attached geometry (if both are positive) goes back
\* to __init__, which adopts it
ConnWake ==
    /\ conn.pc = "waiting" /\ conn.event
    /\ conn' =
         IF AttachFailed
         THEN [conn EXCEPT !.pc = "raised", !.closed = TRUE, !.msg = conn.error]
         ELSE LET ready == Ready(conn.rows, conn.cols)
                  dims == Adopt(ready, conn.start_rows, conn.start_cols)
              IN [conn EXCEPT !.pc = "returned", !.ready = ready,
                              !.rt_rows = dims[1], !.rt_cols = dims[2]]
    /\ UNCHANGED <<mainvars, io, rpc, term, par, sio, tmx, tcs, oct, pbs, lk>>

\* connect: the wait times out; close() and raise
ConnTimeout ==
    /\ conn.pc = "waiting" /\ ~conn.event
    /\ conn' = [conn EXCEPT !.pc = "raised", !.closed = TRUE,
                            !.msg = "iterm2 bridge attach timeout"]
    /\ UNCHANGED <<mainvars, io, rpc, term, par, sio, tmx, tcs, oct, pbs, lk>>

NextConn ==
    \/ \E o \in {"notarget", "refused", "ok"}, r, c \in Dims : ConnStart(o, r, c)
    \/ \E k \in {"attached", "attached_bad", "error", "exit", "output", "junk"},
          m \in Messages, ar, ac \in Dims : ConnRead(k, m, ar, ac)
    \/ ConnReadEOF
    \/ ConnWake
    \/ ConnTimeout

InitConn == FacadeInit /\ Parts("conn")

SpecConn == InitConn /\ [][NextConn]_vars

----------------------------------------------------------------------------
\* ext.start of the tmux extension: _start with no session installed calls
\* start_tmux_control_session.

\* the words of params.command: the subcommand, the flag in its two
\* spellings, another option, a pane id
TmuxWords == {"share", "--allow-nested", "-allow-nested", "-x", "%0"}

TmuxCommands == UNION {[1..n -> TmuxWords] : n \in 0..MaxLen}

\* arg in ("--allow-nested", "-allow-nested")
IsAllowNested(arg) == arg \in {"--allow-nested", "-allow-nested"}

\* arg.startswith("-")
Dashed(arg) == arg \in {"--allow-nested", "-allow-nested", "-x"}

\* parse_tmux_start_command: args after a leading "share"
TmuxArgs(command) ==
    IF Len(command) > 0 /\ command[1] = "share" THEN Tail(command) ELSE command

\* parse_tmux_start_command raises: no command, an unknown option, a second
\* positional argument, or no target
ParseRaises(command) ==
    LET args == TmuxArgs(command)
        positional == {i \in 1..Len(args) : ~Dashed(args[i])}
    IN \/ command = <<>>
       \/ \E i \in 1..Len(args) : Dashed(args[i]) /\ ~IsAllowNested(args[i])
       \/ Cardinality(positional) # 1

\* parse_tmux_start_command: allow_nested
AllowNested(command) ==
    \E i \in 1..Len(TmuxArgs(command)) : IsAllowNested(TmuxArgs(command)[i])

\* a start that takes every command as carrying the flag
NestedAlways(command) == TRUE

\* start_tmux_control_session: "if not allow_nested" is skipped
GuardSkipped(command) == AllowNested(command)

\* the pane: @term_relay_origin is not set, is set, or the pane cannot be
\* queried (tmux display-message fails)
Panes == {"unset", "set", "unknown"}

\* _start and start_tmux_control_session on one request.  emit: the history
\* snapshot of capture_and_emit is not empty.
TmxStart(command, pane, emit) ==
    /\ tmx.pc = "idle"
    /\ LET t0 == [tmx EXCEPT !.pc = "done", !.command = command, !.pane = pane]
       IN tmx' =
            IF ParseRaises(command)
            THEN [t0 EXCEPT !.code = ERR_INVALID_PARAMS, !.msg = "parse"]
            ELSE IF ~GuardSkipped(command) /\ pane = "unknown"
            THEN [t0 EXCEPT !.queried = TRUE, !.code = ERR_INVALID_PARAMS,
                            !.msg = "failed to inspect pane metadata"]
            ELSE IF ~GuardSkipped(command) /\ pane = "set"
            THEN [t0 EXCEPT !.queried = TRUE, !.code = ERR_INVALID_PARAMS,
                            !.msg = "relay-managed (origin); use --allow-nested"]
            ELSE IF pane = "unknown"
            THEN [t0 EXCEPT !.queried = ~GuardSkipped(command),
                            !.code = ERR_INTERNAL, !.msg = "tmux command failed"]
            ELSE [t0 EXCEPT !.queried = ~GuardSkipped(command),
                            !.spawned = TRUE, !.installed = TRUE,
                            !.notes = IF emit THEN 1 ELSE 0]
    /\ UNCHANGED <<mainvars, io, rpc, term, par, sio, conn, tcs, oct, pbs, lk>>

\* the response is written; the next process is looked at
TmxRespond ==
    /\ tmx.pc = "done"
    /\ tmx' = TmxInit
    /\ UNCHANGED <<mainvars, io, rpc, term, par, sio, conn, tcs, oct, pbs, lk>>

NextTmx ==
    \/ \E command \in TmuxCommands, pane \in Panes, emit \in BOOLEAN :
          TmxStart(command, pane, emit)
    \/ TmxRespond

InitTmx == FacadeInit /\ Parts("tmx")

SpecTmx == InitTmx /\ [][NextTmx]_vars

----------------------------------------------------------------------------
\* One TmuxControlSession: start() on the request thread, the reader thread,
\* the wait thread, the tmux -C child with its stdout pipe, and the
\* notifications that reach stdout through the facade's emitters.

\* the pane ids of the tmux server
PaneIds == {"%1", "%2"}

\* what "display-message -p #{pane_id}" printed, stripped: a pane id or nothing
TargetPanes == PaneIds \cup {""}

\* The lines of the control stream, by their three fields: a notification
\* that is no %output, an %output whose pane field is no "%" and digits, and
\* %output lines of a pane with an empty payload, a plain one and one that
\* holds the escape \400.
TmuxLines ==
    {[verb |-> "%exit", pane |-> "", payload |-> ""],
     [verb |-> "%output", pane |-> "1", payload |-> "a"]} \cup
    [verb : {"%output"}, pane : PaneIds, payload : {"", "a", "\\400"}]

\* OUTPUT_RE.match: "%output", a pane id of "%" and digits, the payload
OutputMatch(line) == line.verb = "%output" /\ line.pane \in PaneIds

\* _read_loop: "if self.target_pane and pane and pane != self.target_pane"
PaneSkipped(target_pane, pane) ==
    target_pane # "" /\ pane # "" /\ pane # target_pane

\* decode_octal on the payload raises (bytearray.append of a value over 255)
PayloadRaises(payload) == payload = "\\400"

\* a wait thread that does not look at the _stopped event
TmuxExitReasonUnstopped(stop_set, code) ==
    IF code = 0 THEN [text |-> "EOF", n |-> 0]
    ELSE [text |-> "tmux process exited", n |-> code]

\* _wait_loop: "EOF" when stopped and the status is 0 or -SIGINT, "EOF" when
\* the status is 0, f"tmux process exited: {code}" otherwise
TmuxExitReason(stop_set, code) ==
    IF stop_set /\ code \in {0, -2} THEN [text |-> "EOF", n |-> 0]
    ELSE IF code = 0 THEN [text |-> "EOF", n |-> 0]
    ELSE [text |-> "tmux process exited", n |-> code]

\* a notification on stdout: an event.output of the history snapshot or of
\* the n-th line the child wrote, or an event.exit
TcsFrame(type, src, pane, n, reason) ==
    [type |-> type, src |-> src, pane |-> pane, n |-> n, reason |-> reason]

\* start() up to the two Thread(...).start() calls: the pane id is resolved,
\* the child spawned, the reader and the wait thread started
TcsStart(pane) ==
    /\ tcs.pc = "new"
    /\ tcs' = [pc |-> "capture", target_pane |-> pane, stopped |-> FALSE,
               child |-> "running", code |-> 0, stop_first |-> FALSE,
               produced |-> 0, pipe |-> <<>>,
               reader |-> "top", held |-> 0, held_pane |-> "",
               waiter |-> "wait", reason |-> NoReason, out |-> <<>>]
    /\ UNCHANGED <<mainvars, io, rpc, term, par, sio, conn, tmx, oct, pbs, lk>>

\* start(): capture_and_emit on the request thread; emit: capture-pane
\* succeeded and printed something
TcsCapture(emit) ==
    /\ tcs.pc = "capture"
    /\ tcs' = [tcs EXCEPT !.pc = "running",
                          !.out = IF emit
                                  THEN Append(@, TcsFrame("output", "history", "", 0, NoReason))
                                  ELSE @]
    /\ UNCHANGED <<mainvars, io, rpc, term, par, sio, conn, tmx, oct, pbs, lk>>

\* stop(), called by the facade once start() has returned: the event is set,
\* stdin closed and SIGINT sent (the child's end is left to TcsChildExit)
TcsStop ==
    /\ tcs.pc = "running" /\ ~tcs.stopped
    /\ tcs' = [tcs EXCEPT !.stopped = TRUE]
    /\ UNCHANGED <<mainvars, io, rpc, term, par, sio, conn, tmx, oct, pbs, lk>>

\* the child writes a line of the control stream
TcsChildWrite(line) ==
    /\ tcs.pc # "new" /\ tcs.child = "running" /\ tcs.produced < MaxSends
    /\ tcs' = [tcs EXCEPT !.produced = @ + 1,
                          !.pipe = Append(@, [line |-> line, n |-> tcs.produced + 1])]
    /\ UNCHANGED <<mainvars, io, rpc, term, par, sio, conn, tmx, oct, pbs, lk>>

\* the child exits, on its own or on the SIGINT of stop()
TcsChildExit(code) ==
    /\ tcs.pc # "new" /\ tcs.child = "running"
    /\ tcs' = [tcs EXCEPT !.child = "exited", !.code = code,
                          !.stop_first = tcs.stopped]
    /\ UNCHANGED <<mainvars, io, rpc, term, par, sio, conn, tmx, oct, pbs, lk>>

\* _read_loop: "while not self._stopped.is_set()"
TcsReaderTop ==
    /\ tcs.pc # "new" /\ tcs.reader = "top"
    /\ tcs' = [tcs EXCEPT !.reader = IF tcs.stopped THEN "done" ELSE "read"]
    /\ UNCHANGED <<mainvars, io, rpc, term, par, sio, conn, tmx, oct, pbs, lk>>

\* _read_loop: readline returns a line; the match, the pane check and the
\* decoding of the payload.  The thread ends ("died") when decode_octal raises.
TcsReaderRead ==
    /\ tcs.pc # "new" /\ tcs.reader = "read" /\ tcs.pipe # <<>>
    /\ LET l == Head(tcs.pipe).line
           next == IF ~OutputMatch(l) THEN "top"
                   ELSE IF PaneSkipped(tcs.target_pane, l.pane) THEN "top"
                   ELSE IF PayloadRaises(l.payload) THEN "died"
                   ELSE IF l.payload = "" THEN "top"
                   ELSE "emit"
       IN tcs' = [tcs EXCEPT !.pipe = Tail(@), !.reader = next,
                             !.held = IF next = "emit" THEN Head(tcs.pipe).n ELSE 0,
                             !.held_pane = IF next = "emit" THEN l.pane ELSE ""]
    /\ UNCHANGED <<mainvars, io, rpc, term, par, sio, conn, tmx, oct, pbs, lk>>

\* _read_loop: self._emit_output(self.handle, payload)
TcsReaderEmit ==
    /\ tcs.pc # "new" /\ tcs.reader = "emit"
    /\ tcs' = [tcs EXCEPT !.reader = "top", !.held = 0, !.held_pane = "",
                          !.out = Append(@, TcsFrame("output", "live", tcs.held_pane,
                                                     tcs.held, NoReason))]
    /\ UNCHANGED <<mainvars, io, rpc, term, par, sio, conn, tmx, oct, pbs, lk>>

\* _read_loop: readline returns b"", the child has closed its stdout
TcsReaderEOF ==
    /\ tcs.pc # "new" /\ tcs.reader = "read"
    /\ tcs.pipe = <<>> /\ tcs.child = "exited"
    /\ tcs' = [tcs EXCEPT !.reader = "done"]
    /\ UNCHANGED <<mainvars, io, rpc, term, par, sio, conn, tmx, oct, pbs, lk>>

\* _wait_loop: proc.wait() returns and the reason is chosen
TcsWaitReturn ==
    /\ tcs.pc # "new" /\ tcs.waiter = "wait" /\ tcs.child = "exited"
    /\ tcs' = [tcs EXCEPT !.waiter = "notify",
                          !.reason = TmuxExitReason(tcs.stopped, tcs.code)]
    /\ UNCHANGED <<mainvars, io, rpc, term, par, sio, conn, tmx, oct, pbs, lk>>

\* _wait_loop: self._emit_exit(self.handle, reason); the thread ends
TcsWaitNotify ==
    /\ tcs.pc # "new" /\ tcs.waiter = "notify"
    /\ tcs' = [tcs EXCEPT !.waiter = "done",
                          !.out = Append(@, TcsFrame("exit", "wait", "", 0, tcs.reason))]
    /\ UNCHANGED <<mainvars, io, rpc, term, par, sio, conn, tmx, oct, pbs, lk>>

NextTcs ==
    \/ \E pane \in TargetPanes : TcsStart(pane)
    \/ \E emit \in BOOLEAN : TcsCapture(emit)
    \/ TcsStop
    \/ \E line \in TmuxLines : TcsChildWrite(line)
    \/ \E code \in ExitCodes : TcsChildExit(code)
    \/ TcsReaderTop
    \/ TcsReaderRead
    \/ TcsReaderEmit
    \/ TcsReaderEOF
    \/ TcsWaitReturn
    \/ TcsWaitNotify

InitTcs == FacadeInit /\ Parts("tcs")

SpecTcs == InitTcs /\ [][NextTcs]_vars

----------------------------------------------------------------------------
\* decode_octal, the decoder of the payload of an %output line.  A byte is its
\* value 0..255; 92 is the backslash, 48..55 are the digits "0".."7".

\* the bytes tried in a payload: the backslash, the digits 0, 4, 7 and 8, "A"
OctBytes == {92, 48, 52, 55, 56, 65}

\* the payloads given to decode_octal
OctStrings == UNION {[1..n -> OctBytes] : n \in 0..(MaxLen + 1)}

\* the bytes tried in what a pane prints: newline, "4", "A", the backslash
PlainBytes == {10, 52, 65, 92}

\* what a pane prints
PlainStrings == UNION {[1..n -> PlainBytes] : n \in 0..(MaxLen - 1)}

\* 0x30 <= b <= 0x37
OctDigit(b) == b >= 48 /\ b <= 55

\* the condition of the "if" at position 1 of data: a backslash, at least
\* three bytes after it, all three of them octal digits
EscapeAt(data) ==
    /\ data[1] = 92
    /\ 3 < Len(data)
    /\ OctDigit(data[2]) /\ OctDigit(data[3]) /\ OctDigit(data[4])

\* int(data[i + 1 : i + 4], 8)
OctValue(data) == 64 * (data[2] - 48) + 8 * (data[3] - 48) + (data[4] - 48)

\* the values decode_octal appends to out, in order
RECURSIVE OctAppended(_)
OctAppended(data) ==
    IF data = <<>> THEN <<>>
    ELSE IF EscapeAt(data)
    THEN <<OctValue(data)>> \o OctAppended(SubSeq(data, 5, Len(data)))
    ELSE <<data[1]>> \o OctAppended(Tail(data))

\* decode_octal: bytearray.append raises ValueError for a value over 255; the
\* bytes are returned when no append raised
decode_octal(data) ==
    LET v == OctAppended(data)
        bad == \E i \in 1..Len(v) : v[i] > 255
    IN [raised |-> bad, out |-> IF bad THEN <<>> ELSE v]

\* the control mode of tmux writes a byte below 32 and the backslash as a
\* backslash and three octal digits, and every other byte as it is
RECURSIVE TmuxEscape(_)
TmuxEscape(plain) ==
    IF plain = <<>> THEN <<>>
    ELSE LET b == plain[1]
         IN (IF b < 32 \/ b = 92
             THEN <<92, 48 + (b \div 64), 48 + ((b \div 8) % 8), 48 + (b % 8)>>
             ELSE <<b>>) \o TmuxEscape(Tail(plain))

\* decode_octal is called on a payload
OctDecode(data) ==
    /\ oct.pc = "idle"
    /\ oct' = [pc |-> "done", data |-> data, escaped |-> FALSE, plain |-> <<>>,
               res |-> decode_octal(data)]
    /\ UNCHANGED <<mainvars, io, rpc, term, par, sio, conn, tmx, tcs, pbs, lk>>

\* decode_octal is called on what tmux has made of the bytes a pane printed
OctDecodeEscaped(plain) ==
    /\ oct.pc = "idle"
    /\ oct' = [pc |-> "done", data |-> TmuxEscape(plain), escaped |-> TRUE,
               plain |-> plain, res |-> decode_octal(TmuxEscape(plain))]
    /\ UNCHANGED <<mainvars, io, rpc, term, par, sio, conn, tmx, tcs, pbs, lk>>

\* the next payload
OctNext ==
    /\ oct.pc = "done"
    /\ oct' = OctInit
    /\ UNCHANGED <<mainvars, io, rpc, term, par, sio, conn, tmx, tcs, pbs, lk>>

NextOct ==
    \/ \E data \in OctStrings : OctDecode(data)
    \/ \E plain \in PlainStrings : OctDecodeEscaped(plain)
    \/ OctNext

InitOct == FacadeInit /\ Parts("oct")

SpecOct == InitOct /\ [][NextOct]_vars

----------------------------------------------------------------------------
\* parse_terminal_bridge_start on the params of one ext.start.  A string is
\* the sequence of its characters; the empty string also stands for a member
\* that is missing ("params.get(...) or ..." treats both alike).

\* the strings tried as target and as words of command
Texts == UNION {[1..n -> {" ", "a"}] : n \in 0..(MaxLen - 1)}

\* params.command: no word, one or two
BridgeCommands == UNION {[1..n -> Texts] : n \in 0..2}

\* params.term
Terms == {"", "vt100"}

\* str.lstrip, str.rstrip and str.strip on blanks
RECURSIVE LStrip(_)
LStrip(s) == IF s # <<>> /\ s[1] = " " THEN LStrip(Tail(s)) ELSE s

RECURSIVE RStrip(_)
RStrip(s) ==
    IF s # <<>> /\ s[Len(s)] = " " THEN RStrip(SubSeq(s, 1, Len(s) - 1)) ELSE s

Strip(s) == RStrip(LStrip(s))

\* a parse that knows no other target than params.target
BridgeTargetExplicitOnly(target, command) == Strip(target)

\* the target: params.target stripped; when that is empty and there is a
\* command, the first word of the command stripped
BridgeTarget(target, command) ==
    IF Strip(target) = <<>> /\ command # <<>> THEN Strip(command[1])
    ELSE Strip(target)

\* parse_terminal_bridge_start: RPCError -32602 without a target, else the
\* TerminalBridgeStart
parse_terminal_bridge_start(target, command, rows, cols, t) ==
    LET start == [target |-> BridgeTarget(target, command),
                  command |-> command,
                  rows |-> ParseDim(rows, DEFAULT_ROWS),
                  cols |-> ParseDim(cols, DEFAULT_COLS),
                  term |-> IF t = "" THEN "xterm-256color" ELSE t]
    IN IF start.target = <<>>
       THEN [raised |-> TRUE, code |-> ERR_INVALID_PARAMS,
             msg |-> "target is required", start |-> start]
       ELSE [raised |-> FALSE, code |-> OK, msg |-> "", start |-> start]

\* start_terminal_bridge_session parses the params of a request
PbsParse(target, command, rows, cols, t) ==
    /\ pbs.pc = "idle"
    /\ pbs' = [pc |-> "done", target |-> target, command |-> command,
               rows |-> rows, cols |-> cols, term |-> t,
               res |-> parse_terminal_bridge_start(target, command, rows, cols, t)]
    /\ UNCHANGED <<mainvars, io, rpc, term, par, sio, conn, tmx, tcs, oct, lk>>

\* the next request
PbsNext ==
    /\ pbs.pc = "done"
    /\ pbs' = PbsInit
    /\ UNCHANGED <<mainvars, io, rpc, term, par, sio, conn, tmx, tcs, oct, lk>>

NextPbs ==
    \/ /\ pbs.pc = "idle"
       /\ \E target \in Texts, command \in BridgeCommands, rows \in Dims,
             cols \in Dims, t \in Terms : PbsParse(target, command, rows, cols, t)
    \/ PbsNext

InitPbs == FacadeInit /\ Parts("pbs")

SpecPbs == InitPbs /\ [][NextPbs]_vars

----------------------------------------------------------------------------
\* The locks of the RPC variant.  Every method is the sequence of lock
\* operations it performs on one of its paths; a thread that has called a
\* method performs them one by one, and an acquire waits while another
\* thread, or the thread itself, holds the lock (threading.Lock is not
\* reentrant).  Writes to the socket, to the child's stdin and to stdout are
\* taken to return.

\* SingleSessionRPCServer._lock, TerminalBridgeRuntime._lock,
\* Iterm2SocketTransport._state_lock and _write_lock,
\* TmuxControlSession._write_lock, _JSONLineIO._write_lock
LkLocks == {"session", "runtime", "state", "write", "tmuxw", "io"}

\* JsonRPCServer.run, the backend's reader thread, the tmux wait thread
LkThreads == {"run", "reader", "wait"}

\* "with lock: body"
With(lock, body) == <<<<"acq", lock>>>> \o body \o <<<<"rel", lock>>>>

\* _JSONLineIO.send (a response or a notification)
LkSend == With("io", <<>>)

\* Iterm2SocketTransport._send_frame
LkSendFrame == With("write", <<>>)

\* Iterm2SocketTransport.close: the detach frame unless closed already
LkClose(was_closed) ==
    With("state", <<>>) \o (IF was_closed THEN <<>> ELSE LkSendFrame)

\* runtime.stop(): TerminalBridgeRuntime.stop, which closes the transport
\* unless stopped already, or TmuxControlSession.stop
LkStop(was_stopped, was_closed) ==
    IF backend = "bridge"
    THEN With("runtime", <<>>) \o (IF was_stopped THEN <<>> ELSE LkClose(was_closed))
    ELSE With("tmuxw", <<>>)

\* runtime.write_input / runtime.resize
LkForward(was_stopped) ==
    IF backend = "bridge"
    THEN With("runtime", <<>>) \o (IF was_stopped THEN <<>> ELSE LkSendFrame)
    ELSE IF was_stopped THEN <<>> ELSE With("tmuxw", <<>>)

\* SingleSessionRPCServer._emit_exit
LkEmitExit == With("session", <<>>) \o LkSend

\* an _on_exit that calls the facade inside its lock section
LkOnExitInsideLock(was_sent) ==
    With("runtime", IF was_sent THEN <<>> ELSE LkEmitExit)

\* TerminalBridgeRuntime._on_exit
LkOnExit(was_sent) ==
    With("runtime", <<>>) \o (IF was_sent THEN <<>> ELSE LkEmitExit)

\* Iterm2SocketTransport._emit_exit_once
LkEmitExitOnce(was_emitted, was_sent) ==
    With("state", <<>>) \o (IF was_emitted THEN <<>> ELSE LkOnExit(was_sent))

\* TerminalBridgeRuntime._on_output
LkOnOutput(was_stopped) ==
    With("runtime", <<>>) \o (IF was_stopped THEN <<>> ELSE LkSend)

\* start_session: connect sends the attach frame, waits, and closes the
\* transport when the handshake fails; start() of the tmux session sends the
\* resize command and writes the snapshot
LkStartSession(ok, emit) ==
    IF backend = "bridge"
    THEN LkSendFrame \o (IF ok THEN <<>> ELSE LkClose(FALSE))
    ELSE With("tmuxw", <<>>) \o (IF emit THEN LkSend ELSE <<>>)

\* what JsonRPCServer.run does for one request, response included, and the
\* on_close hook: ext.health and every handler that leaves after its first
\* lock section; ext.input and ext.resize; ext.stop on the installed session;
\* ext.start (failed in the backend, installed, or beaten to the slot);
\* _cleanup
LkRequests ==
    {With("session", <<>>) \o LkSend}
    \cup {With("session", <<>>) \o LkForward(s) \o LkSend : s \in BOOLEAN}
    \cup {With("session", LkStop(s, c)) \o LkSend : s, c \in BOOLEAN}
    \cup {With("session", <<>>) \o LkStartSession(FALSE, e) \o LkSend : e \in BOOLEAN}
    \cup {With("session", <<>>) \o LkStartSession(TRUE, e)
              \o With("session", <<>>) \o LkSend : e \in BOOLEAN}
    \cup {With("session", <<>>) \o LkStartSession(TRUE, e)
              \o With("session", LkStop(FALSE, FALSE)) \o LkSend : e \in BOOLEAN}
    \cup {With("session", <<>>) \o LkStop(s, c) : s, c \in BOOLEAN}

\* what the threads of the backend call: the bridge's reader _on_output and
\* _emit_exit_once; the tmux reader emit_output, the tmux wait thread emit_exit
LkCalls(t) ==
    IF t = "run" THEN LkRequests
    ELSE IF t = "reader"
    THEN IF backend = "bridge"
         THEN {LkOnOutput(s) : s \in BOOLEAN}
              \cup {LkEmitExitOnce(e, s) : e, s \in BOOLEAN}
         ELSE {LkSend}
    ELSE IF backend = "tmux" THEN {LkEmitExit} ELSE {}

\* thread t enters a method
LkCall(t, path) ==
    /\ lk.todo[t] = <<>>
    /\ path \in LkCalls(t)
    /\ lk' = [lk EXCEPT !.todo[t] = path]
    /\ UNCHANGED <<mainvars, io, rpc, term, par, sio, conn, tmx, tcs, oct, pbs>>

\* lock.acquire() returns
LkAcquire(t) ==
    /\ lk.todo[t] # <<>>
    /\ Head(lk.todo[t])[1] = "acq"
    /\ lk.holder[Head(lk.todo[t])[2]] = "none"
    /\ lk' = [lk EXCEPT !.holder[Head(lk.todo[t])[2]] = t, !.todo[t] = Tail(@)]
    /\ UNCHANGED <<mainvars, io, rpc, term, par, sio, conn, tmx, tcs, oct, pbs>>

\* lock.release()
LkRelease(t) ==
    /\ lk.todo[t] # <<>>
    /\ Head(lk.todo[t])[1] = "rel"
    /\ lk' = [lk EXCEPT !.holder[Head(lk.todo[t])[2]] = "none", !.todo[t] = Tail(@)]
    /\ UNCHANGED <<mainvars, io, rpc, term, par, sio, conn, tmx, tcs, oct, pbs>>

NextLk ==
    \E t \in LkThreads :
        \/ \E path \in LkCalls(t) : LkCall(t, path)
        \/ LkAcquire(t)
        \/ LkRelease(t)

InitLk == FacadeInit /\ Parts("lk")

SpecLk == InitLk /\ [][NextLk]_vars

\* the scheduler lets no thread wait for ever for a lock that is free again
\* and again
SpecLkFair ==
    SpecLk /\ \A t \in LkThreads : SF_vars(LkAcquire(t)) /\ WF_vars(LkRelease(t))

----------------------------------------------------------------------------
\* Properties

\* request thread c has the answer of its method-m request ready to write
Answered(c, m) == req[c].pc = "respond" /\ req[c].m = m

\* C1: for every session, at most one event.exit carrying its handle is ever
\* written to stdout.
ExitAtMostOnce == \A s \in Sessions : exits[s] <= 1

\* C1, its case: a session's event.exit is on stdout and a further exit report
\* (frame or disconnect) has just been held back by the gate.
SecondExitReportDropped ==
    \E s \in Sessions :
        exits[s] = 1 /\ reader[s] \in {"exit_dropped", "eof_dropped"}

\* C2: once stop() of a session's runtime has returned, no event.output for
\* that session's handle is written to stdout.
NoOutputAfterStop == \A s \in Sessions : ~late_output[s]

\* C3: a session whose handle ext.start returned has exactly one event.exit on
\* stdout once it has ended (all its backend threads have finished).
ExitWrittenWhenEnded ==
    \A s \in Sessions :
        (/\ returned[s]
         /\ reader[s] = "done"
         /\ backend = "tmux" => waiter[s] = "done")
        => exits[s] = 1

\* C4: an ext.start issued while a session is installed is answered 4001,
\* constructs no runtime, and leaves the installed session in the slot (until
\* the session ends by itself) and not stopped.
StartWhileInstalledRejected ==
    \A c \in Callers :
        (Answered(c, "start") /\ req[c].pre # NoSession)
        => /\ req[c].code = ERR_SESSION_RUNNING
           /\ req[c].rt = NoSession
           /\ session \in {req[c].pre, NoSession}
           /\ ~stopped[req[c].pre]

\* C4, its case: an ext.start that found a session installed has been refused.
StartRefusedWhileInstalled ==
    \E c \in Callers :
        /\ Answered(c, "start") /\ req[c].pre # NoSession
        /\ req[c].code = ERR_SESSION_RUNNING
        /\ session = req[c].pre

\* request thread c lost the double-start race: its _start built a runtime
\* and was answered 4001 in the second lock section
LostRace(c) ==
    /\ Answered(c, "start")
    /\ req[c].code = ERR_SESSION_RUNNING
    /\ req[c].rt # NoSession

NoExitAfterFailedAttach == \A s \in Sessions : failed[s] => exits[s] = 0

\* C7: an ext.start answered with an error has not put its runtime in the
\* slot; if no session was installed when it began, none is after it: a
\* following ext.health answers active:false and a following ext.start is not
\* answered 4001.
FailedStartLeavesSlot ==
    \A c \in Callers :
        /\ (Answered(c, "start") /\ req[c].code # OK)
           => /\ req[c].rt # NoSession => session # req[c].rt
              /\ req[c].pre = NoSession => session = NoSession
        /\ (Answered(c, "health") /\ req[c].clean_fail) => ~req[c].active
        /\ (Answered(c, "start") /\ req[c].clean_fail)
           => req[c].code # ERR_SESSION_RUNNING

\* C7, its case: an ext.health that follows a failed ext.start is answered.
HealthAfterFailedStart ==
    \E c \in Callers : Answered(c, "health") /\ req[c].clean_fail

\* C8: whenever an event.exit for a session is on stdout, the slot does not
\* hold that session.
ExitedSessionNotInSlot == \A s \in Sessions : exits[s] > 0 => session # s

\* request thread c runs an ext.input or ext.resize that has passed
\* _require_session or been answered
Routed(c) ==
    /\ req[c].m \in {"input", "resize"}
    /\ req[c].pc \in {"forward", "respond"}

\* the request of thread c was answered 4004 and nothing went to the backend
Rejected(c) ==
    /\ req[c].pc = "respond"
    /\ req[c].code = ERR_SESSION_NOT_FOUND
    /\ ~req[c].fwd

\* C9: an ext.input or ext.resize that carries a handle whose event.exit is
\* already on stdout is answered 4004 and forwards nothing.
StaleHandleRejected ==
    \A c \in Callers : (Routed(c) /\ req[c].stale) => Rejected(c)

\* C10: an ext.input or ext.resize whose session_handle is missing or empty is
\* answered 4004 and forwards nothing, also while a session is active.
EmptyHandleRejected ==
    \A c \in Callers : (Routed(c) /\ req[c].h = NoSession) => Rejected(c)

\* C11: when the result of the ext.start that created a session is about to
\* be written, no event.output and no event.exit carrying the session's handle
\* is on stdout yet.
ResponseBeforeEvents ==
    \A c \in Callers :
        (Answered(c, "start") /\ req[c].code = OK) => ~req[c].early

\* the ext.start that built runtime s has been answered and the answer did
\* not return the handle of s
NeverReturned(s) ==
    /\ s <= nextId
    /\ ~returned[s]
    /\ \A c \in Callers : ~(req[c].m = "start" /\ req[c].rt = s)

\* C12: no notification carries a handle that no ext.start result returns: an
\* ext.start that built a runtime and is answered with an error has no
\* event.output or event.exit for that runtime's handle before its answer,
\* and no event.exit for it is written afterwards.
NotifiedHandleReturned ==
    /\ \A c \in Callers :
           (Answered(c, "start") /\ req[c].code # OK /\ req[c].rt # NoSession)
           => ~req[c].early
    /\ \A s \in Sessions : NeverReturned(s) => exits[s] = 0

\* C13: stdout is a concatenation of whole frames: every line is followed at
\* once by the newline of the same send (or is the last thing written, by a
\* send that is still in progress), every newline follows the line of its own
\* send, and what flush has pushed out ends with a newline.
FramesWhole ==
    /\ \A i \in 1..Len(io.out) :
           LET x == io.out[i] IN
           IF x[3] = "line"
           THEN IF i < Len(io.out)
                THEN io.out[i + 1] = <<x[1], x[2], "\n">>
                ELSE io.pc[x[1]] = "newline"
           ELSE i > 1 /\ io.out[i - 1] = <<x[1], x[2], "line">>
    /\ io.flushed > 0 => io.out[io.flushed][3] = "\n"

\* C13, its case: every thread has a whole frame on stdout and a further
\* send is inside the with block.
SendersContend ==
    /\ Len(io.out) >= 2
    /\ \E w \in Writers : io.pc[w] \in {"line", "newline", "flush"}
    /\ \A w \in Writers : io.sent[w] >= 1

\* C14: every ext.stop is answered {ok:true}; when a session was installed
\* and the handle is missing, empty or that session's, its runtime is stopped
\* and the slot is empty; when the handle names another session, the
\* installed runtime is not stopped and stays in the slot (until it ends by
\* itself); when no session was installed, none is.
StopEffect ==
    \A c \in Callers :
        Answered(c, "stop")
        => /\ req[c].code = OK
           /\ IF req[c].pre = NoSession THEN session = NoSession
              ELSE IF req[c].h \in {NoSession, req[c].pre}
              THEN stopped[req[c].pre] /\ session = NoSession
              ELSE /\ ~stopped[req[c].pre] /\ ~closed[req[c].pre]
                   /\ session \in {req[c].pre, NoSession}

\* C14, its case: an ext.stop without a handle has stopped the installed
\* session.
WildcardStopDone ==
    \E c \in Callers :
        /\ Answered(c, "stop") /\ req[c].h = NoSession
        /\ req[c].pre # NoSession /\ stopped[req[c].pre]
        /\ session = NoSession

\* C15: over any sequence of stop() calls on a runtime, transport.close() is
\* invoked at most once and at most one detach frame is sent (that every
\* ext.stop is answered {ok:true} is part of StopEffect).
StopIdempotent == term.closes <= 1 /\ term.detaches <= 1

\* C15, its case: stop() has been called twice on a bridge runtime.
StoppedTwice == backend = "bridge" /\ term.stops = 2 /\ term.closes = 1

\* C17: a write_input(B) on a runtime that is not stopped and whose backend
\* is there sends exactly B: the bridge gets one input frame whose data_b64
\* decodes to B (none for the empty B), tmux gets one send-keys -H command
\* per byte, in order, each with the two hexadecimal digits of the byte.
InputDelivered ==
    (term.op = "input" /\ term.live)
    => IF backend = "bridge"
       THEN /\ Len(term.wire) = (IF term.data = <<>> THEN 0 ELSE 1)
            /\ term.wire # <<>>
               => /\ term.wire[1].type = "input"
                  /\ decode_b64(term.wire[1].data_b64) = term.data
       ELSE /\ Len(term.wire) = Len(term.data)
            /\ \A i \in 1..Len(term.wire) :
                   /\ term.wire[i].type = "send-keys"
                   /\ Len(term.wire[i].hex) = 2
                   /\ Unhex(term.wire[i].hex) = term.data[i]

\* C17, its case: a byte string of several different bytes, one of them
\* below 16, was written to a live runtime.
InputWritten ==
    /\ term.op = "input" /\ term.live
    /\ Len(term.data) >= 2 /\ term.data[1] # term.data[2]
    /\ \E i \in 1..Len(term.data) : term.data[i] < 16

\* C18: a runtime that start_session returned has rows > 0 and cols > 0.
DimsPositive == term.pc = "live" => (term.rows > 0 /\ term.cols > 0)

\* C18, its case: a runtime was started with rows and cols that are missing,
\* zero or negative (and no attached geometry) and has the defaults.
StartedWithDefaults ==
    /\ term.pc = "live" /\ term.op = "start"
    /\ term.rows = DEFAULT_ROWS /\ term.cols = DEFAULT_COLS

\* an ext.resize of thread c whose rows or cols is zero, negative or missing
\* has been handled
BadResizeHandled(c) ==
    /\ req[c].m = "resize" /\ req[c].bad
    /\ req[c].pc \in {"forward", "respond"}

\* the request of thread c is answered -32602 and nothing went to the runtime
RefusedInvalid(c) ==
    /\ req[c].pc = "respond"
    /\ req[c].code = ERR_INVALID_PARAMS
    /\ ~req[c].fwd

RequestDone ==
    /\ rpc.pc = "done" /\ rpc.line.kind = "object"
    /\ rpc.line.method \in {"known", "unknown"}

\* C19: a request whose params member is present and is not a JSON object
\* (null, array, string, number or boolean, empty and zero values included)
\* is answered with -32602 and its handler is not called.
NonObjectParamsRefused ==
    (RequestDone /\ rpc.line.params \notin {"missing", "empty_object", "object"})
    => /\ Len(rpc.out) = 1
       /\ rpc.out[1].code = ERR_INVALID_PARAMS
       /\ ~rpc.invoked

\* the one response of the request in hand when its handler was called
HandlerResponse ==
    /\ rpc.line.outcome = "result" => rpc.out[1].kind = "result"
    /\ rpc.line.outcome = "rpcerror" => rpc.out[1].code = ERR_SESSION_NOT_FOUND
    /\ rpc.line.outcome = "exception" => rpc.out[1].code = ERR_INTERNAL

\* C20 as stated: every request produces exactly one response, with its id,
\* before the next line is read: -32601 if no handler is registered, else the
\* handler's result, its RPCError's code, or -32603.
ResponsePerRequest ==
    RequestDone
    => /\ Len(rpc.out) = 1
       /\ rpc.line.id # "missing" => rpc.out[1].id = rpc.line.id
       /\ IF rpc.line.method = "unknown"
          THEN rpc.out[1].code = ERR_METHOD_NOT_FOUND
          ELSE rpc.invoked => HandlerResponse

\* C20 as amended: every request produces exactly one response, with its id,
\* before the next line is read: -32602 without a handler call if params is
\* refused; otherwise -32601 if no handler is registered, else the handler's
\* result, its RPCError's code, or -32603.
ResponsePerRequestAfterParams ==
    RequestDone
    => /\ Len(rpc.out) = 1
       /\ rpc.line.id # "missing" => rpc.out[1].id = rpc.line.id
       /\ IF rpc.line.params \in {"list", "string", "number", "true"}
          THEN rpc.out[1].code = ERR_INVALID_PARAMS /\ ~rpc.invoked
          ELSE IF rpc.line.method = "unknown"
          THEN rpc.out[1].code = ERR_METHOD_NOT_FOUND /\ ~rpc.invoked
          ELSE rpc.invoked /\ HandlerResponse

\* C20, its case: a request with an id whose handler raised something other
\* than an RPCError has been answered.
ExceptionAnswered ==
    /\ RequestDone /\ rpc.invoked
    /\ rpc.line.outcome = "exception" /\ rpc.line.id = "7"
    /\ Len(rpc.out) = 1

\* C21: a request of ext.start, ext.input or ext.resize that passed the
\* session check and has a parameter error (target missing, rows or cols of
\* the wrong type or not positive in a resize, data_b64 that is no base64) is
\* answered with -32602 and leaves the session as it was.
ParamErrorsInvalidParams ==
    (par.pc = "done" /\ par.perr
        /\ par.code \notin {ERR_SESSION_RUNNING, ERR_SESSION_NOT_FOUND})
    => par.code = ERR_INVALID_PARAMS /\ ParSession = par.before

\* the line in hand is blank, is no JSON, is no JSON object, or is an object
\* whose method is missing, empty or no string
Malformed ==
    \/ rpc.line.kind \in {"blank", "badjson", "nonobject"}
    \/ rpc.line.kind = "object" /\ rpc.line.method \in {"missing", "empty", "nonstring"}

\* C22: once the loop is through with a malformed line, no frame has been
\* written for it, no handler was called (the session is touched by handlers
\* only, so it is as it was), and the loop can go on to the next line.
MalformedLineDropped ==
    (rpc.pc = "done" /\ Malformed)
    => /\ rpc.out = <<>>
       /\ ~rpc.invoked
       /\ ENABLED RPCNextLine

\* the loop is through with a request whose method is a number
NonStringMethodDropped ==
    rpc.pc = "done" /\ rpc.line.kind = "object" /\ rpc.line.method = "nonstring"

\* C23: run returns only after the on_close hook, which it enters once, at
\* stdin EOF; when it has returned no session is installed, and the session
\* that was installed at EOF has been stopped.
EOFRunsCleanup ==
    /\ req["main"].pc \in {"cleanup", "returned"} => req["main"].m = "close"
    /\ req["main"].pc = "returned"
        => /\ session = NoSession
           /\ req["main"].rt # NoSession => stopped[req["main"].rt]

\* run has returned after an EOF that found a session installed
ReturnedAfterActiveSession ==
    req["main"].pc = "returned" /\ req["main"].rt # NoSession

\* the frames of the given type on the Simple I/O stdout
SioCount(type) == Cardinality({i \in 1..Len(sio.out) : sio.out[i].type = type})

\* C24: on_start is invoked at most once, and the step that handles a start
\* frame after a successful start writes no frame, calls neither on_start nor
\* Popen and leaves run in its loop.
StartOnlyOnce ==
    [][/\ sio'.starts <= 1
       /\ \A f \in StartFrames :
            (sio.started /\ SioHandle(f))
            => /\ sio'.out = sio.out
               /\ sio'.starts = sio.starts /\ sio'.spawns = sio.spawns
               /\ sio'.pc = "loop"]_vars

\* a start frame was handled after a successful start
SecondStartHandled ==
    sio.last \in StartFrames /\ sio.was_started /\ SioCount("ready") = 1

\* C25: stdout of the Simple I/O process never holds two exit frames.
OneExitFrame == SioCount("exit") <= 1

\* C26: while run is in its loop, the exit frame the wait thread has written
\* for the child's exit carries "EOF" for status 0 and "exit status N" for
\* status N, and no output frame follows it on stdout.
ChildExitFrameLast ==
    sio.pc = "loop" =>
        \A i \in 1..Len(sio.out) :
            sio.out[i].type = "exit"
            => /\ sio.out[i].reason = ExitReason(sio.code)
               /\ \A j \in (i + 1)..Len(sio.out) : sio.out[j].type # "output"

\* C27: a first start frame whose on_start raises ends run with status 1 and
\* the exit frame of the error as the only frame; a stop frame ends it with
\* status 0 after on_stop; stdin EOF ends it with status 0; and once run has
\* ended no further line is handled.
RunStatus ==
    /\ (sio.last \in {"start_empty", "start_fail"} /\ ~sio.was_started)
        => /\ sio.pc \in {"returned", "exited"} /\ sio.ret = 1
           /\ sio.out = <<SioFrame("exit", StartError(sio.last))>>
    /\ sio.last = "stop"
        => sio.pc \in {"returned", "exited"} /\ sio.ret = 0 /\ sio.stops = 1
    /\ sio.last = "eof" => sio.pc \in {"returned", "exited"} /\ sio.ret = 0
    /\ sio.pc # "loop" => \A f \in SioFrames : ~ENABLED SioHandle(f)

\* run has returned 1 for a command that cannot be spawned
FailedSpawnReturned == sio.pc = "returned" /\ sio.last = "start_fail" /\ sio.ret = 1

AttachedGeometryAdopted ==
    conn.pc = "returned"
    => <<conn.rt_rows, conn.rt_cols>> =
         IF conn.ready[1] > 0 /\ conn.ready[2] > 0 THEN conn.ready
         ELSE <<conn.start_rows, conn.start_cols>>

\* the runtime has taken a geometry that differs from the requested one
AdoptedOtherGeometry ==
    /\ conn.pc = "returned"
    /\ conn.ready[1] > 0 /\ conn.ready[2] > 0
    /\ conn.ready[1] # conn.start_rows /\ conn.ready[2] # conn.start_cols
    /\ conn.rt_rows = conn.ready[1] /\ conn.rt_cols = conn.ready[2]

\* the command of the request in hand carries --allow-nested
FlagGiven ==
    \E i \in 1..Len(tmx.command) : tmx.command[i] \in {"--allow-nested", "-allow-nested"}

OnlyTargetPaneEmitted ==
    tcs.pc # "new" =>
        \A i \in 1..Len(tcs.out) :
            tcs.out[i].src = "live" => tcs.out[i].pane = tcs.target_pane

\* the same for a target_pane that is a pane id
OnlyTargetPaneEmittedIfKnown ==
    (tcs.pc # "new" /\ tcs.target_pane # "") =>
        \A i \in 1..Len(tcs.out) :
            tcs.out[i].src = "live" => tcs.out[i].pane = tcs.target_pane

\* the event.exit frames on stdout of the tmux session
TcsExits == {i \in 1..Len(tcs.out) : tcs.out[i].type = "exit"}

\* C33: the wait thread writes one event.exit, and none before the child has
\* exited.  Its reason is "EOF" when the child's status is 0, and when stop()
\* was called before the child exited and the status is 0 or -SIGINT; it is
\* "tmux process exited: <code>" when the status is neither 0 nor -SIGINT, and
\* when the status is not 0 and stop() has not been called.
TmuxExitReasonRight ==
    tcs.pc # "new" =>
        /\ Cardinality(TcsExits) <= 1
        /\ tcs.waiter = "done" <=> Cardinality(TcsExits) = 1
        /\ \A i \in TcsExits :
            LET reason == tcs.out[i].reason
                EOF == [text |-> "EOF", n |-> 0]
                Exited == [text |-> "tmux process exited", n |-> tcs.code]
            IN /\ tcs.child = "exited"
               /\ tcs.code = 0 => reason = EOF
               /\ (tcs.stop_first /\ tcs.code \in {0, -2}) => reason = EOF
               /\ tcs.code \notin {0, -2} => reason = Exited
               /\ (~tcs.stopped /\ tcs.code # 0) => reason = Exited

\* the session was stopped, the child ended by the interrupt, and the exit
\* written is "EOF"
StoppedByInterruptEOF ==
    /\ tcs.pc # "new" /\ tcs.stop_first /\ tcs.code = -2
    /\ \E i \in TcsExits : tcs.out[i].reason = [text |-> "EOF", n |-> 0]

\* C34: the event.output notifications of a tmux session whose target_pane
\* is a pane id are on stdout in the order the bytes were produced: the
\* history snapshot before every line of the control stream, and the lines in
\* the order the child wrote them.
OutputInProducedOrder ==
    (tcs.pc # "new" /\ tcs.target_pane \in PaneIds) =>
        \A i, j \in 1..Len(tcs.out) :
            (i < j /\ tcs.out[i].type = "output" /\ tcs.out[j].type = "output")
            => /\ tcs.out[j].src = "live"
               /\ tcs.out[i].src = "live" => tcs.out[i].n < tcs.out[j].n

\* the order among the lines of the control stream alone
LiveOutputInProducedOrder ==
    tcs.pc # "new" =>
        \A i, j \in 1..Len(tcs.out) :
            (i < j /\ tcs.out[i].src = "live" /\ tcs.out[j].src = "live")
            => tcs.out[i].n < tcs.out[j].n

\* C40: on stdout no event.output of a tmux session whose target_pane is a
\* pane id follows the event.exit of that session.
NoOutputAfterExit ==
    (tcs.pc # "new" /\ tcs.target_pane \in PaneIds) =>
        \A i \in TcsExits :
            \A j \in (i + 1)..Len(tcs.out) : tcs.out[j].type # "output"

\* the payload in hand holds an escape of a value over 255 (\400..\777)
EscapeOver255 ==
    \E i \in 1..Len(oct.data) :
        EscapeAt(SubSeq(oct.data, i, Len(oct.data)))
        /\ OctValue(SubSeq(oct.data, i, Len(oct.data))) > 255

\* C32: decode_octal raises on no payload and returns bytes (values up to
\* 255); a payload without a backslash comes back as it is, and the escaped
\* form of what a pane printed comes back as what the pane printed.
OctalDecodeTotal ==
    oct.pc = "done" =>
        /\ ~oct.res.raised
        /\ \A i \in 1..Len(oct.res.out) : oct.res.out[i] \in 0..255
        /\ (\A i \in 1..Len(oct.data) : oct.data[i] # 92) => oct.res.out = oct.data
        /\ oct.escaped => oct.res.out = oct.plain

\* the same for payloads in which no escape is over \377
OctalDecodeUpTo377 ==
    (oct.pc = "done" /\ ~EscapeOver255) =>
        /\ ~oct.res.raised
        /\ \A i \in 1..Len(oct.res.out) : oct.res.out[i] \in 0..255
        /\ (\A i \in 1..Len(oct.data) : oct.data[i] # 92) => oct.res.out = oct.data
        /\ oct.escaped => oct.res.out = oct.plain

\* a string that holds something beside blanks
NonBlank(s) == \E i \in 1..Len(s) : s[i] # " "

\* s without the blanks at its ends
Trimmed(s) ==
    LET first == CHOOSE i \in 1..Len(s) : s[i] # " " /\ \A j \in 1..(i - 1) : s[j] = " "
        last == CHOOSE i \in 1..Len(s) : s[i] # " " /\ \A j \in (i + 1)..Len(s) : s[j] = " "
    IN SubSeq(s, first, last)

\* C35: the parse takes the trimmed params.target when it holds more than
\* blanks, else the trimmed first word of command when that holds more than
\* blanks, and fails with -32602 "target is required" when neither does; rows,
\* cols and term are 24, 80 and xterm-256color when missing, rows and cols
\* also when not positive, and are as given otherwise.
BridgeStartResolved ==
    pbs.pc = "done" =>
        LET res == pbs.res
            fallback == pbs.command # <<>> /\ NonBlank(pbs.command[1])
        IN /\ NonBlank(pbs.target)
               => ~res.raised /\ res.start.target = Trimmed(pbs.target)
           /\ (~NonBlank(pbs.target) /\ fallback)
               => ~res.raised /\ res.start.target = Trimmed(pbs.command[1])
           /\ (~NonBlank(pbs.target) /\ ~fallback)
               => /\ res.raised /\ res.code = ERR_INVALID_PARAMS
                  /\ res.msg = "target is required"
           /\ ~res.raised
               => /\ res.start.target # <<>>
                  /\ res.start.command = pbs.command
                  /\ res.start.rows = IF pbs.rows > 0 THEN pbs.rows ELSE 24
                  /\ res.start.cols = IF pbs.cols > 0 THEN pbs.cols ELSE 80
                  /\ res.start.term = IF pbs.term = "" THEN "xterm-256color"
                                      ELSE pbs.term

\* a request with a blank target and negative rows was parsed: the target is
\* the first word of its command, the rows are the default
TargetFromCommand ==
    /\ pbs.pc = "done" /\ pbs.target = <<" ">> /\ pbs.command = <<<<" ", "a">>, <<"a">>>>
    /\ pbs.rows = -1 /\ pbs.cols = 2
    /\ ~pbs.res.raised /\ pbs.res.start.target = <<"a">>
    /\ pbs.res.start.rows = 24 /\ pbs.res.start.cols = 2

\* C38: when run has returned after an on_start that succeeded, on_stop has
\* been called once.
StoppedOnEveryReturn ==
    (sio.pc \in {"returned", "exited"} /\ sio.started /\ sio.last # "resize_badrows")
    => sio.stops = 1

\* the same for the returns of a stop frame and of stdin EOF
StoppedOnStopAndEOF ==
    (sio.pc \in {"returned", "exited"} /\ sio.started /\ sio.last \in {"stop", "eof"})
    => sio.stops = 1

\* C39: the ready frame of a successful start is on stdout before every
\* output frame and every exit frame of the session.
ReadyBeforeSessionFrames ==
    sio.started =>
        \A i \in 1..Len(sio.out) :
            sio.out[i].type \in {"output", "exit"}
            => \E j \in 1..(i - 1) : sio.out[j].type = "ready"

\* thread t waits for a lock that thread u holds
LkWaitsFor(t, u) ==
    /\ lk.todo[t] # <<>>
    /\ Head(lk.todo[t])[1] = "acq"
    /\ lk.holder[Head(lk.todo[t])[2]] = u

\* no set of threads in which each waits for a lock held inside the set
NoLockCycle ==
    \A W \in SUBSET LkThreads :
        W # {} => \E t \in W : \A u \in W : ~LkWaitsFor(t, u)

\* C36: the locks are never held and awaited in a cycle, and every method a
\* thread has entered returns.
LocksNeverDeadlock ==
    /\ []NoLockCycle
    /\ \A t \in LkThreads : (lk.todo[t] # <<>>) ~> (lk.todo[t] = <<>>)

\* ext.stop holds the session lock inside runtime.stop() while the reader
\* thread waits for the session lock in _emit_exit
StopHoldsWhileExitWaits ==
    /\ lk.holder["session"] = "run" /\ lk.holder["runtime"] = "run"
    /\ lk.todo["reader"] # <<>> /\ Head(lk.todo["reader"]) = <<"acq", "session">>


\* C37: an exit reported for an old session never removes a newer one: when
\* the lock section of _emit_exit runs for the handle of s while the slot
\* holds another session, it leaves the slot as it was, so that session is
\* still installed afterwards
LateExitKeepsNewer ==
    kept # NoKept => kept[3] = kept[2] /\ session = kept[2]

\* the last step was the lock section of _emit_exit for a session that
\* ext.stop had stopped, run while a session started later was installed
LateExitOfStoppedSession ==
    /\ kept # NoKept /\ stopped[kept[1]]
    /\ kept[2] > kept[1] /\ session = kept[2]
====
